---- MODULE Spec2Model ----
(***************************************************************************)
(* A model of the trace-logging instrumentation engine: the run-time      *)
(* behaviour of the code the three instrumenter drafts generate (the      *)
(* ts-morph tracer, the TypeScript transformer and the Babel plugin), the  *)
(* payload serializers they inject, and the route-registration            *)
(* instrumenters.                                                          *)
(***************************************************************************)
EXTENDS Integers, Sequences, FiniteSets, TLC

VARIABLES
    \* --- payload serialization (safe-json-serializer.ts) ---
    serPc,      \* "idle" | "done": position of one serialization call
    serFn,      \* which serializer ran: "none" | "safeToString" | "inline"
    serArgs,    \* the run-time values handed to the serializer
    serOut,     \* its completion: [raised, undef, s]
    \* --- one invocation of a generated function wrapper ---
    draft,      \* the instrumenter that generated the wrapper
    fn,         \* the construct: [name, isAsync, promiseType, className, isStatic]
    filePath,   \* the path of the source file, as its segments
    wrapper,    \* the wrapper emitted for fn: "none" | "sync" | "async"
    pc,         \* "source" | "ready" | "entered" | "awaiting" | "done"
    beh,        \* what the original callable does when invoked
    call,       \* the invocation: [thisArg, args]
    received,   \* what the original callable was invoked with
    origPromise,\* state of the thenable the original returned
    log,        \* the emitted log events, in order
    outcome,    \* what the caller of the wrapper observes
    \* --- route registrations ---
    routeDraft, \* the route instrumenter
    routeCall,  \* the call expression: [receiver, recvIsIdent, verb, args]
    routePc,    \* "source" | "instrumented" | "dispatched"
    routeOut,   \* [recognized, routePath, instrumented]
    hCall,      \* one request dispatched to a forwarding handler
    iCall,      \* one request dispatched to an instrumented inline handler
    \* --- one source file through the instrumentation pass ---
    passDraft,  \* the instrumenter
    source,     \* the constructs the file declares, in order
    helpers,    \* how many declarations of safeToString the file holds
    emitted,    \* the wrappers emitted for it so far
    passes,     \* how many passes ran over the file
    run,        \* one invocation of a construct of the output
    \* --- the build step over a source tree ---
    tree,       \* the source files present in the source directory
    broken,     \* the source files whose parsing or transformation fails
    outTree,    \* the artifacts present in the output directory
    build,      \* the build in progress or last run
    builds,     \* how many builds were started
    \* --- one dev supervisor process ---
    sup,            \* which supervisor script runs
    supBuilder,     \* the build function it imports
    supPc,          \* the statement of rebuild() about to run, or "idle"
    serverProcess,  \* the tracked child process (0: null)
    alive,          \* the spawned processes no kill() was sent to
    spawned,        \* how many processes were spawned
    pendingTimers,  \* pending timers armed through rebuildTimeout
    startTimers,    \* pending setTimeout(startServer, 500) timers
    queue,          \* watcher events that arrived and are not delivered yet
    entryFile,      \* whether ENTRY_FILE exists
    rb,             \* the current or last rebuild, and the events around it
    supBuilds,      \* how many builds the supervisor ran
    edits,          \* how many files were changed from outside
    \* --- the body-instrumenting transformer over the files of a program ---
    fileNo,           \* how many source files the transformer was given
    content,          \* the function-like nodes of the current file, in order
    todoNodes,        \* those the visitor has not reached yet
    anonymousCounter, \* the counter of the current file
    given,            \* the names given in the current file, in order
    finished,         \* content and given names of the files done before
    \* --- the ts-morph tracer over the text of one route registration ---
    refCall,          \* the registration: [receiver, verb, path, handler], as text
    refPrelude,       \* the text of the file before the registration
    refPc,            \* "off" | "source" | "done"
    endpoints,        \* endpointsToInstrument, as instrumentFile fills it
    instrumentedCode, \* the text instrumentFile returns
    \* --- one invocation of a function rewritten by createInstrumentedBody ---
    retBody,          \* the function: [hasReturn, expr] of the executed return
    retPc,            \* "off" | "source" | "ready" | "entered" | "logged" | "done"
    retEvals,         \* how often the return expression was evaluated
    retCalls,         \* the calls and side effects that happened, in order
    retLog            \* the lines written by the generated log statements

serVars == <<serPc, serFn, serArgs, serOut>>
wrapVars == <<draft, fn, filePath, wrapper, pc, beh, call, received, origPromise, log, outcome>>
routeVars == <<routeDraft, routeCall, routePc, routeOut, hCall, iCall>>
passVars == <<passDraft, source, helpers, emitted, passes, run>>
buildVars == <<tree, broken, outTree, build, builds>>
supVars == <<sup, supBuilder, supPc, serverProcess, alive, spawned, pendingTimers,
             startTimers, queue, entryFile, rb, supBuilds, edits>>
nameVars == <<fileNo, content, todoNodes, anonymousCounter, given, finished>>
refVars == <<refCall, refPrelude, refPc, endpoints, instrumentedCode>>
retVars == <<retBody, retPc, retEvals, retCalls, retLog>>
vars == <<serVars, wrapVars, routeVars, passVars, buildVars, supVars, nameVars,
         refVars, retVars>>

-----------------------------------------------------------------------------
(* Run-time values.  Every value is a record of one shape; objects carry   *)
(* an identity (id), their constructor, and the traits the serializers     *)
(* react to.  An object with cyclic = TRUE has a property `self` that      *)
(* refers to the object itself.                                            *)

Base ==
    [t |-> "undefined", n |-> 0, s |-> "", id |-> 0, ctor |-> "",
     cyclic |-> FALSE, toJSONThrows |-> FALSE, toStringThrows |-> FALSE,
     items |-> <<>>]

Undefined == Base
Num(k) == [Base EXCEPT !.t = "number", !.n = k]
Str(x) == [Base EXCEPT !.t = "string", !.s = x]
BigIntV(k) == [Base EXCEPT !.t = "bigint", !.n = k]
Obj(i) == [Base EXCEPT !.t = "object", !.ctor = "Object", !.id = i]
ErrorV(i, msg) == [Base EXCEPT !.t = "object", !.ctor = "Error", !.id = i, !.s = msg]
PromiseV(i) == [Base EXCEPT !.t = "object", !.ctor = "Promise", !.id = i]
Arr(i, xs) == [Base EXCEPT !.t = "object", !.ctor = "Array", !.id = i, !.items = xs]
SelfRef(i) == [Obj(i) EXCEPT !.cyclic = TRUE]
ThrowingToJSON(i) == [Obj(i) EXCEPT !.toJSONThrows = TRUE]
ThrowingToString(i) == [Obj(i) EXCEPT !.toStringThrows = TRUE, !.cyclic = TRUE]
RequestLike(i) == [Obj(i) EXCEPT !.ctor = "IncomingMessage", !.cyclic = TRUE]
ResponseLike(i) == [Obj(i) EXCEPT !.ctor = "ServerResponse", !.cyclic = TRUE]

\* completions of a conversion: a string, the value undefined, or a throw
Ok(x) == [raised |-> FALSE, undef |-> FALSE, s |-> x]
OkUndefined == [raised |-> FALSE, undef |-> TRUE, s |-> ""]
Raised == [raised |-> TRUE, undef |-> FALSE, s |-> ""]

Quote(x) == "\"" \o x \o "\""

\* String(value)
RECURSIVE JoinStrings(_, _)
StringOf(v) ==
    CASE v.t = "undefined" -> Ok("undefined")
      [] v.t = "number" -> Ok(ToString(v.n))
      [] v.t = "bigint" -> Ok(ToString(v.n))
      [] v.t = "string" -> Ok(v.s)
      [] v.t = "function" -> Ok("function")
      [] v.toStringThrows -> Raised
      [] v.ctor = "Error" -> Ok(IF v.s = "" THEN "Error" ELSE "Error: " \o v.s)
      [] v.ctor = "Array" -> JoinStrings(v.items, 1)
      [] v.ctor = "Promise" -> Ok("[object Promise]")
      [] OTHER -> Ok("[object Object]")

JoinOk(head, rest, last) ==
    IF head.raised \/ rest.raised THEN Raised
    ELSE Ok(head.s \o (IF last THEN "" ELSE ",") \o rest.s)

JoinStrings(xs, i) ==
    IF i > Len(xs) THEN Ok("")
    ELSE JoinOk(IF xs[i].t = "undefined" THEN Ok("") ELSE StringOf(xs[i]),
                JoinStrings(xs, i + 1), i = Len(xs))

\* what a template literal `${x}` makes of a completion
TemplateText(c) == IF c.undef THEN "undefined" ELSE c.s

-----------------------------------------------------------------------------
(* JSON.stringify(value, replacer), as far as the serializers depend on    *)
(* it: toJSON is called before the replacer, the replacer's result is      *)
(* serialized by type, a BigInt and a cycle raise a TypeError.             *)

\* the replacer of safeToString: (key, val) => val instanceof Error ? String(val) : val
Replaced(c, val, visited) ==
    [raised |-> c.raised, v |-> IF c.raised THEN val ELSE Str(c.s), visited |-> visited]

errorReplacer(val, visited) ==
    IF val.t = "object" /\ val.ctor = "Error"
    THEN Replaced(StringOf(val), val, visited)
    ELSE [raised |-> FALSE, v |-> val, visited |-> visited]

\* the replacer built by createSafeReplacerFunction; its try/catch has
\* nothing to catch for the values of this model
createSafeReplacerFunction(value, visited) ==
    IF value.t = "object"
    THEN IF value.id \in visited
         THEN [raised |-> FALSE, v |-> Str("[Circular]"), visited |-> visited]
         ELSE [raised |-> FALSE,
               v |-> CASE value.ctor = "IncomingMessage" -> Str("[Request]")
                       [] value.ctor = "ServerResponse" -> Str("[Response]")
                       [] OTHER -> value,
               visited |-> visited \cup {value.id}]
    ELSE [raised |-> FALSE, v |-> value, visited |-> visited]

Replace(rk, value, visited) ==
    IF rk = "error" THEN errorReplacer(value, visited)
    ELSE createSafeReplacerFunction(value, visited)

RECURSIVE SerializeJSONProperty(_, _, _)
RECURSIVE SerializeItems(_, _, _, _)

\* an array: its elements between brackets
Bracketed(e) ==
    [c |-> IF e.c.raised THEN Raised ELSE Ok("[" \o e.c.s \o "]"), visited |-> e.visited]

\* an object whose property `self` holds the object itself, which is on the
\* stack: a TypeError unless the replacer put a string in its place
SelfProperty(inner) ==
    IF inner.raised \/ inner.v.t = "object"
    THEN [c |-> Raised, visited |-> inner.visited]
    ELSE [c |-> Ok("{" \o Quote("self") \o ":" \o Quote(inner.v.s) \o "}"),
          visited |-> inner.visited]

\* the serialization of what the replacer returned, by type
SerializeReplaced(r, rk) ==
    IF r.raised THEN [c |-> Raised, visited |-> r.visited]
    ELSE CASE r.v.t = "undefined" -> [c |-> OkUndefined, visited |-> r.visited]
           [] r.v.t = "number" -> [c |-> Ok(ToString(r.v.n)), visited |-> r.visited]
           [] r.v.t = "string" -> [c |-> Ok(Quote(r.v.s)), visited |-> r.visited]
           [] r.v.t = "bigint" -> [c |-> Raised, visited |-> r.visited]
           [] r.v.t = "function" -> [c |-> OkUndefined, visited |-> r.visited]
           [] r.v.ctor = "Array" -> Bracketed(SerializeItems(r.v.items, 1, rk, r.visited))
           [] r.v.cyclic -> SelfProperty(Replace(rk, r.v, r.visited))
           [] OTHER -> [c |-> Ok("{}"), visited |-> r.visited]

\* returns [c |-> completion, visited |-> the replacer's visited set afterwards]
SerializeJSONProperty(value, rk, visited) ==
    IF value.t \in {"object", "bigint"} /\ value.toJSONThrows
    THEN [c |-> Raised, visited |-> visited]
    ELSE SerializeReplaced(Replace(rk, value, visited), rk)

ItemsJoin(head, rest, last) ==
    IF head.c.raised \/ rest.c.raised
    THEN [c |-> Raised, visited |-> rest.visited]
    ELSE [c |-> Ok((IF head.c.undef THEN "null" ELSE head.c.s)
                   \o (IF last THEN "" ELSE ",") \o rest.c.s),
          visited |-> rest.visited]

ItemsFrom(head, xs, i, rk) ==
    ItemsJoin(head, SerializeItems(xs, i + 1, rk, head.visited), i = Len(xs))

SerializeItems(xs, i, rk, visited) ==
    IF i > Len(xs) THEN [c |-> Ok(""), visited |-> visited]
    ELSE ItemsFrom(SerializeJSONProperty(xs[i], rk, visited), xs, i, rk)

JSONStringify(value, rk) == SerializeJSONProperty(value, rk, {}).c

\* catch (e2) { return '[stringify error]' }
catchE2(str) == IF ~str.raised THEN str ELSE Ok("[stringify error]")

\* catch (e) { try { return String(value) } catch (e2) { ... } }
catchE(j, value) == IF ~j.raised THEN j ELSE catchE2(StringOf(value))

\* the injected helper: try { return JSON.stringify(value, replacer) } catch (e) { ... }
safeToString(value) == catchE(JSONStringify(value, "error"), value)

\* the array literal the inline expression builds is a fresh object
ArrayLiteralId == 0

\* (() => { const visited = new WeakSet(); return JSON.stringify([args], replacer) })()
createSafeJsonStringifyCall(args) ==
    JSONStringify(Arr(ArrayLiteralId, args), "safe")

-----------------------------------------------------------------------------
(* Bounds of the model.                                                    *)

MaxArgs == 2        \* longest argument list of an invocation
MaxSerArgs == 2     \* most values handed to one serialization call

RECURSIVE SeqsUpTo(_, _)
SeqsUpTo(S, k) ==
    IF k = 0 THEN {<<>>}
    ELSE LET shorter == SeqsUpTo(S, k - 1)
         IN  shorter \cup {Append(q, x) : q \in {r \in shorter : Len(r) = k - 1}, x \in S}

-----------------------------------------------------------------------------
(* Payload serialization, applied to run-time values.                      *)

SerValues ==
    {Undefined, Num(5), Str("hi"), BigIntV(1), Obj(1), ErrorV(2, "boom"),
     SelfRef(3), ThrowingToJSON(4), ThrowingToString(5), RequestLike(6),
     PromiseV(7)}

NoCompletion == [raised |-> FALSE, undef |-> TRUE, s |-> "-"]

SerInit ==
    /\ serPc = "idle"
    /\ serFn = "none"
    /\ serArgs \in (SeqsUpTo(SerValues, MaxSerArgs) \ {<<>>})
    /\ serOut = NoCompletion

SerIdle ==
    /\ serPc = "idle"
    /\ serFn = "none"
    /\ serArgs = <<>>
    /\ serOut = NoCompletion

\* safeToString(result) / safeToString(error): one value
CallSafeToString ==
    /\ serPc = "idle"
    /\ serPc' = "done"
    /\ serFn' = "safeToString"
    /\ serOut' = safeToString(serArgs[1])
    /\ UNCHANGED <<serArgs, wrapVars, routeVars, passVars, buildVars, supVars, nameVars, refVars, retVars>>

\* safeToString(args): the argument array of an invocation
CallSafeToStringArgs ==
    /\ serPc = "idle"
    /\ serPc' = "done"
    /\ serFn' = "safeToStringArgs"
    /\ serOut' = safeToString(Arr(ArrayLiteralId, serArgs))
    /\ UNCHANGED <<serArgs, wrapVars, routeVars, passVars, buildVars, supVars, nameVars, refVars, retVars>>

\* the inline expression of createLogStatement over the listed expressions
CallSafeJsonStringify ==
    /\ serPc = "idle"
    /\ serPc' = "done"
    /\ serFn' = "inline"
    /\ serOut' = createSafeJsonStringifyCall(serArgs)
    /\ UNCHANGED <<serArgs, wrapVars, routeVars, passVars, buildVars, supVars, nameVars, refVars, retVars>>

-----------------------------------------------------------------------------
(* The generated function wrappers.  Each draft emits, per construct, a    *)
(* wrapper that is either the synchronous or the asynchronous template;    *)
(* the templates of the three drafts have the same statements.             *)

Drafts == {"tsmorph", "transformer", "babel"}

\* mutant: the first path segment instead of the last
basenameFirst(p) == p[1]

\* path.basename(filePath) / fileName.split('/').pop()
basename(p) == p[Len(p)]

NoWrapper == [kind |-> "none", file |-> "", scope |-> "", name |-> ""]

\* mutant: the synchronous template whatever isAsync says
createStandaloneWrapperSync(functionName, isAsync, fileName) ==
    [kind |-> "sync", file |-> fileName, scope |-> "", name |-> functionName]

\* ts-morph tracer: the template is chosen by the isAsync parameter
createStandaloneWrapper(functionName, isAsync, fileName) ==
    [kind |-> IF isAsync THEN "async" ELSE "sync",
     file |-> fileName, scope |-> "", name |-> functionName]

createClassMethodWrapper(functionName, isAsync, fileName, className, isStatic) ==
    [kind |-> IF isAsync THEN "async" ELSE "sync",
     file |-> fileName, scope |-> "", name |-> functionName]

\* findAllNamedFunctions, rules 1 and 2: isAsync is node.isAsync()
findAllNamedFunctions(f, fileName) ==
    IF f.className = ""
    THEN createStandaloneWrapper(f.name, f.isAsync, fileName)
    ELSE createClassMethodWrapper(f.name, f.isAsync, fileName, f.className, f.isStatic)

\* transformer
hasAsyncModifier(f) == f.isAsync
hasPromiseReturnType(f) == f.promiseType
needsAsyncWrapper(f) == hasAsyncModifier(f) \/ hasPromiseReturnType(f)

createSyncWrapper(functionName, fileName) ==
    [kind |-> "sync", file |-> fileName, scope |-> "", name |-> functionName]

createAsyncWrapper(functionName, fileName) ==
    [kind |-> "async", file |-> fileName, scope |-> "", name |-> functionName]

createAppropriateWrapper(f, functionName, fileName) ==
    IF needsAsyncWrapper(f) THEN createAsyncWrapper(functionName, fileName)
    ELSE createSyncWrapper(functionName, fileName)

\* Babel plugin: isAsync is path.node.async
injectLogging(f, functionName, fileName) ==
    [kind |-> IF f.isAsync THEN "async" ELSE "sync",
     file |-> fileName, scope |-> "", name |-> functionName]

EmitWrapper(d, f, path) ==
    CASE d = "tsmorph" -> findAllNamedFunctions(f, basename(path))
      [] d = "transformer" -> createAppropriateWrapper(f, f.name, basename(path))
      [] OTHER -> injectLogging(f, f.name, basename(path))

\* `${status}|FUNCTION|${fileName}||${functionName}|${safeToString(value)}`
createSimpleLogCall(status, w, value) ==
    [phase |-> status, subject |-> "FUNCTION", file |-> w.file, scope |-> w.scope,
     name |-> w.name, payload |-> TemplateText(safeToString(value))]

\* the line console.log prints for a log event
Render(e) ==
    e.phase \o "|" \o e.subject \o "|" \o e.file \o "|" \o e.scope \o "|"
        \o e.name \o "|" \o e.payload

\* the statements of the try block after the original returned `result`
tryBlock(w, result) ==
    [logs |-> <<createSimpleLogCall("EXIT", w, result)>>, returned |-> result]

\* mutant: a catch clause that re-throws without logging
catchClauseSilent(w, error) == [logs |-> <<>>, thrown |-> error]

\* catch (error) { console.log(ERROR...); throw error }
catchClause(w, error) ==
    [logs |-> <<createSimpleLogCall("ERROR", w, error)>>, thrown |-> error]

\* mutant: originalVar(...args), which loses the receiver
ApplyOriginalNoThis(c) == [thisArg |-> Undefined, args |-> c.args]

\* originalVar.apply(this, args)
ApplyOriginal(c) == [thisArg |-> c.thisArg, args |-> c.args]

(* The original callable.  It computes from its receiver and arguments     *)
(* (this.n * 10 + the sum of the numeric arguments), or throws / rejects   *)
(* with an error object.                                                   *)
RECURSIVE SumArgs(_, _)
SumArgs(xs, i) == IF i > Len(xs) THEN 0 ELSE xs[i].n + SumArgs(xs, i + 1)
OrigValue(r) == Num(r.thisArg.n * 10 + SumArgs(r.args, 1))
OrigError(r) == ErrorV(9, "boom")
OrigPromiseObject == PromiseV(8)

Receiver == [Obj(5) EXCEPT !.n = 1]
ArgValues == {Num(2), Num(3), SelfRef(1)}

Constructs ==
    {[name |-> "add", isAsync |-> a, promiseType |-> p, className |-> c, isStatic |-> st] :
        a \in BOOLEAN, p \in BOOLEAN, c \in {"", "Calc"}, st \in {FALSE}}

\* an async function never throws synchronously and always returns a promise
Behaviours(f) ==
    IF f.isAsync THEN {"resolve", "reject"} ELSE {"return", "throw", "resolve", "reject"}

NoOutcome == [kind |-> "none", state |-> "-", val |-> Undefined]

WrapInit ==
    /\ draft \in Drafts
    /\ fn \in Constructs
    \* the transformer's wrapper of a method rebinds a bare name no scope
    \* declares, so its output does not load; only functions are invoked
    /\ draft = "transformer" => fn.className = ""
    /\ filePath \in {<<"math.ts">>, <<"src", "math.ts">>}
    /\ wrapper = NoWrapper
    /\ pc = "source"
    /\ beh \in Behaviours(fn)
    /\ call = [thisArg |-> Undefined, args |-> <<>>]
    /\ received = <<>>
    /\ origPromise = "none"
    /\ log = <<>>
    /\ outcome = NoOutcome

WrapIdle ==
    /\ draft = "tsmorph"
    /\ fn = [name |-> "add", isAsync |-> FALSE, promiseType |-> FALSE,
             className |-> "", isStatic |-> FALSE]
    /\ filePath = <<"math.ts">>
    /\ wrapper = NoWrapper
    /\ pc = "idle"
    /\ beh = "return"
    /\ call = [thisArg |-> Undefined, args |-> <<>>]
    /\ received = <<>>
    /\ origPromise = "none"
    /\ log = <<>>
    /\ outcome = NoOutcome

\* build time: the draft emits the wrapper for the construct
Instrument ==
    /\ pc = "source"
    /\ wrapper' = EmitWrapper(draft, fn, filePath)
    /\ pc' = "ready"
    /\ UNCHANGED <<draft, fn, filePath, beh, call, received, origPromise, log, outcome>>
    /\ UNCHANGED <<serVars, routeVars, passVars, buildVars, supVars, nameVars, refVars, retVars>>

\* a caller invokes the wrapper: the ENTER log precedes the try statement
Invoke ==
    /\ pc = "ready"
    /\ \E t \in {Undefined, Receiver}, a \in SeqsUpTo(ArgValues, MaxArgs) :
          /\ call' = [thisArg |-> t, args |-> a]
          /\ log' = Append(log, createSimpleLogCall("ENTER", wrapper, Arr(ArrayLiteralId, a)))
    /\ pc' = "entered"
    /\ UNCHANGED <<draft, fn, filePath, wrapper, beh, received, origPromise, outcome>>
    /\ UNCHANGED <<serVars, routeVars, passVars, buildVars, supVars, nameVars, refVars, retVars>>

\* try { const result = [await] original.apply(this, args); ... } catch (error) { ... }
\* up to the first await: the logs written, what the caller holds, where
\* the wrapper stands, and the state of the thenable the original returned
Threw(w, c) ==
    [logs |-> c.logs, pc |-> "done", origPromise |-> "none",
     outcome |-> IF w.kind = "async"
                 THEN [kind |-> "promise", state |-> "rejected", val |-> c.thrown]
                 ELSE [kind |-> "throw", state |-> "-", val |-> c.thrown]]

Returned(t, promise) ==
    [logs |-> t.logs, pc |-> "done", origPromise |-> promise,
     outcome |-> [kind |-> "return", state |-> "-", val |-> t.returned]]

TryStatement(w, b, r) ==
    CASE b = "throw" -> Threw(w, catchClause(w, OrigError(r)))
      [] w.kind = "async" ->
            \* await suspends the wrapper; its caller holds a pending promise
            [logs |-> <<>>, pc |-> "awaiting",
             origPromise |-> IF b = "return" THEN "none" ELSE "pending",
             outcome |-> [kind |-> "promise", state |-> "pending", val |-> Undefined]]
      [] b = "return" -> Returned(tryBlock(w, OrigValue(r)), "none")
      \* the synchronous template logs and returns the thenable itself
      [] OTHER -> Returned(tryBlock(w, OrigPromiseObject), "pending")

Rejected(c) ==
    [logs |-> c.logs, outcome |-> [kind |-> "promise", state |-> "rejected", val |-> c.thrown]]

Resolved(t) ==
    [logs |-> t.logs, outcome |-> [kind |-> "promise", state |-> "resolved", val |-> t.returned]]

\* the rest of the asynchronous template, once the awaited value is there
AfterAwait(w, settled, r) ==
    IF settled = "rejected" THEN Rejected(catchClause(w, OrigError(r)))
    ELSE Resolved(tryBlock(w, OrigValue(r)))

CallOriginal ==
    /\ pc = "entered"
    /\ received' = <<ApplyOriginal(call)>>
    /\ log' = log \o TryStatement(wrapper, beh, ApplyOriginal(call)).logs
    /\ outcome' = TryStatement(wrapper, beh, ApplyOriginal(call)).outcome
    /\ pc' = TryStatement(wrapper, beh, ApplyOriginal(call)).pc
    /\ origPromise' = TryStatement(wrapper, beh, ApplyOriginal(call)).origPromise
    /\ UNCHANGED <<draft, fn, filePath, wrapper, beh, call>>
    /\ UNCHANGED <<serVars, routeVars, passVars, buildVars, supVars, nameVars, refVars, retVars>>

\* the thenable the original returned settles
SettleOriginal ==
    /\ origPromise = "pending"
    /\ origPromise' = IF beh = "resolve" THEN "resolved" ELSE "rejected"
    /\ UNCHANGED <<draft, fn, filePath, wrapper, pc, beh, call, received, log, outcome>>
    /\ UNCHANGED <<serVars, routeVars, passVars, buildVars, supVars, nameVars, refVars, retVars>>

\* the asynchronous template continues after its await
Resume ==
    /\ pc = "awaiting"
    /\ origPromise # "pending"
    /\ log' = log \o AfterAwait(wrapper, origPromise, received[1]).logs
    /\ outcome' = AfterAwait(wrapper, origPromise, received[1]).outcome
    /\ pc' = "done"
    /\ UNCHANGED <<draft, fn, filePath, wrapper, beh, call, received, origPromise>>
    /\ UNCHANGED <<serVars, routeVars, passVars, buildVars, supVars, nameVars, refVars, retVars>>

-----
(* Route registrations.  A call expression receiver.verb(args) is given by *)
(* its receiver (an identifier, or some other expression ending in that    *)
(* name), its method name and its argument nodes.                          *)

MaxRouteArgs == 3   \* longest argument list of a call expression

\* EXPRESS_METHODS of express-endpoint-instrumenter.ts, the ts-morph tracer
\* and express-instrumenter
EXPRESS_METHODS == {"get", "post", "put", "delete", "patch", "head", "options", "all"}
\* EXPRESS_METHODS inside isExpressRouteCall of the Babel plugin
BABEL_EXPRESS_METHODS == {"get", "post", "put", "delete"}

RouteDrafts == {"ast", "tsmorph", "babel", "transformer", "bodydraft"}

toUpperCase(m) ==
    CASE m = "get" -> "GET" [] m = "post" -> "POST" [] m = "put" -> "PUT"
      [] m = "delete" -> "DELETE" [] m = "patch" -> "PATCH" [] m = "head" -> "HEAD"
      [] m = "options" -> "OPTIONS" [] m = "all" -> "ALL" [] m = "use" -> "USE"
      [] OTHER -> m

Node(k, txt) == [kind |-> k, text |-> txt, wrapped |-> "no"]
ArgNodes ==
    {Node("string", "/users"), Node("arrow", "(req, res) => res.end()"),
     Node("function", "function (req, res) {}"), Node("identifier", "handler"),
     Node("identifier", "USERS_PATH"), Node("call", "auth()")}

\* USERS_PATH is a binding that holds a path string, handler one that holds a function
isPathReference(a) == a.kind = "identifier" /\ a.text = "USERS_PATH"

isInlineFunction(a) == a.kind \in {"function", "arrow"}

\* receiver is an identifier named app or router, verb is in the vocabulary
isExpressRouteCall(node, methods) ==
    /\ node.verb \in methods
    /\ node.recvIsIdent
    /\ node.receiver \in {"app", "router"}

\* ts-morph: pathArg && Node.isStringLiteral(pathArg) ? literal value : '/*'
routePathOf(args) ==
    IF Len(args) >= 1 /\ args[1].kind = "string" THEN args[1].text ELSE "/*"

\* extractRoutePath of express-instrumenter: ts.isStringLiteral(firstArg)
\* reads firstArg.kind, a TypeError when the call has no argument
extractRoutePathRaises(args) == Len(args) = 0

Unrecognized(node) ==
    [recognized |-> FALSE, raised |-> FALSE, routePath |-> "", args |-> node.args]

Wrap(a, how) == [a EXCEPT !.wrapped = how]

\* express-endpoint-instrumenter.ts: handlers from startIdx on
instrumentExpressEndpointsAst(node) ==
    IF ~isExpressRouteCall(node, EXPRESS_METHODS) THEN Unrecognized(node)
    ELSE LET args == node.args
             startIdx == IF Len(args) >= 1 /\ args[1].kind = "string" THEN 1 ELSE 0
         IN  [recognized |-> TRUE, raised |-> FALSE, routePath |-> routePathOf(args),
              args |-> [i \in 1..Len(args) |->
                          IF i - 1 < startIdx THEN args[i]
                          ELSE IF isInlineFunction(args[i]) THEN Wrap(args[i], "inline")
                          ELSE IF args[i].kind = "identifier" THEN Wrap(args[i], "ref")
                          ELSE args[i]]]

\* ts-morph tracer: for (let i = 1; i < args.length; i++)
findExpressEndpoints(node) ==
    IF ~isExpressRouteCall(node, EXPRESS_METHODS) THEN Unrecognized(node)
    ELSE LET args == node.args
         IN  [recognized |-> TRUE, raised |-> FALSE, routePath |-> routePathOf(args),
              args |-> [i \in 1..Len(args) |->
                          IF i - 1 < 1 THEN args[i]
                          ELSE IF isInlineFunction(args[i]) THEN Wrap(args[i], "inline")
                          ELSE IF args[i].kind = "identifier" THEN Wrap(args[i], "ref")
                          ELSE args[i]]]

\* Babel plugin: node.arguments.map over every argument, inline functions only
babelInstrumentExpressRoute(node) ==
    IF ~isExpressRouteCall(node, BABEL_EXPRESS_METHODS) THEN Unrecognized(node)
    ELSE LET args == node.args
         IN  [recognized |-> TRUE, raised |-> FALSE, routePath |-> routePathOf(args),
              args |-> [i \in 1..Len(args) |->
                          IF isInlineFunction(args[i]) THEN Wrap(args[i], "inline")
                          ELSE args[i]]]

\* transformer visitor: extractRoutePath, then addSimpleEndpointLogging on
\* every inline function argument
transformerRouteVisitor(node) ==
    IF ~isExpressRouteCall(node, EXPRESS_METHODS) THEN Unrecognized(node)
    ELSE IF extractRoutePathRaises(node.args)
    THEN [recognized |-> TRUE, raised |-> TRUE, routePath |-> "", args |-> node.args]
    ELSE LET args == node.args
         IN  [recognized |-> TRUE, raised |-> FALSE, routePath |-> routePathOf(args),
              args |-> [i \in 1..Len(args) |->
                          IF isInlineFunction(args[i]) THEN Wrap(args[i], "inline")
                          ELSE args[i]]]

\* body-instrumenting draft: instrumentExpressRoute of express-instrumenter
instrumentExpressRoute(node) ==
    IF ~isExpressRouteCall(node, EXPRESS_METHODS) THEN Unrecognized(node)
    ELSE IF extractRoutePathRaises(node.args)
    THEN [recognized |-> TRUE, raised |-> TRUE, routePath |-> "", args |-> node.args]
    ELSE LET args == node.args
         IN  [recognized |-> TRUE, raised |-> FALSE, routePath |-> routePathOf(args),
              args |-> [i \in 1..Len(args) |->
                          IF isInlineFunction(args[i]) THEN Wrap(args[i], "inline")
                          ELSE IF args[i].kind = "identifier" THEN Wrap(args[i], "ref")
                          ELSE args[i]]]

InstrumentRoute(d, node) ==
    CASE d = "ast" -> instrumentExpressEndpointsAst(node)
      [] d = "tsmorph" -> findExpressEndpoints(node)
      [] d = "babel" -> babelInstrumentExpressRoute(node)
      [] d = "transformer" -> transformerRouteVisitor(node)
      [] OTHER -> instrumentExpressRoute(node)

(* Forwarding handlers synthesized for a bare function reference, and one  *)
(* request the router dispatches to them as wrapper(req, res, next).       *)

FunctionV(i) == [Base EXCEPT !.t = "function", !.id = i]

\* `ENTER|ENDPOINT|${method}|${route}|${fileName}|<payload>`
EndpointLine(phase, method, route, fileName, payload) ==
    phase \o "|ENDPOINT|" \o method \o "|" \o route \o "|" \o fileName \o "|" \o payload

\* express-endpoint-instrumenter.ts: logs the handler name, return h(req, res, next)
buildEndpointWrapperRef(handlerName, fileName, method, route, sent, body, hRet) ==
    [lines |-> <<EndpointLine("ENTER", method, route, fileName, handlerName)>>,
     forwarded |-> <<sent[1], sent[2], sent[3]>>,
     returned |-> [kind |-> "return", state |-> "-", val |-> hRet]]

\* ts-morph tracer: logs safeToString(req?.body || {}), return h(req, res)
instrumentFunctionReference(functionName, fileName, method, route, sent, body, hRet) ==
    [lines |-> <<EndpointLine("ENTER", method, route, fileName,
                     TemplateText(safeToString(IF body.t = "undefined" THEN Obj(0) ELSE body)))>>,
     forwarded |-> <<sent[1], sent[2]>>,
     returned |-> [kind |-> "return", state |-> "-", val |-> hRet]]

\* express-instrumenter: console.log('ENDPOINT|M|path|file'), an async arrow
\* returning h(req, res, next)
wrapFunctionReferenceWithLogging(functionRef, fileName, method, route, sent, body, hRet) ==
    [lines |-> <<"ENDPOINT|" \o method \o "|" \o route \o "|" \o fileName>>,
     forwarded |-> <<sent[1], sent[2], sent[3]>>,
     returned |-> [kind |-> "promise", state |-> "resolved", val |-> hRet]]

ForwardingHandler(d, name, fileName, method, route, sent, body, hRet) ==
    CASE d = "ast" -> buildEndpointWrapperRef(name, fileName, method, route, sent, body, hRet)
      [] d = "tsmorph" -> instrumentFunctionReference(name, fileName, method, route, sent, body, hRet)
      [] OTHER -> wrapFunctionReferenceWithLogging(name, fileName, method, route, sent, body, hRet)

(* Instrumented inline handlers.  A template lists what the instrumented  *)
(* handler does around the original body: the events before the body, the  *)
(* lines of its catch clause, of its rejection continuation and of its     *)
(* response-finish listener, the events after a normal completion, and     *)
(* whether the handler's returned expression is evaluated a second time.   *)

LogEv(phase, subject, line) == [e |-> "log", phase |-> phase, subject |-> subject, line |-> line]
BodyEv == [e |-> "body", phase |-> "", subject |-> "", line |-> ""]
FinishEv == [e |-> "finish", phase |-> "", subject |-> "", line |-> ""]

HandlerError == ErrorV(40, "boom")
ErrorPayload == TemplateText(safeToString(HandlerError))

\* safeToString({ params: req?.params, query: req?.query, body: req?.body })
\* for a request whose params and query are empty objects
SnapshotText(body) ==
    "{" \o Quote("params") \o ":{}," \o Quote("query") \o ":{}"
        \o (IF body.t = "undefined" THEN ""
            ELSE "," \o Quote("body") \o ":" \o TemplateText(safeToString(body)))
        \o "}"

\* safeToString({ status: res.statusCode, duration_ms: __dur })
OutText(status, dur) ==
    "{" \o Quote("status") \o ":" \o ToString(status) \o ","
        \o Quote("duration_ms") \o ":" \o ToString(dur) \o "}"

\* express-endpoint-instrumenter.ts: the IIFE around the original handler
buildEndpointWrapperInline(fileName, method, route, body, dur) ==
    [pre |-> <<LogEv("ENTER", "ENDPOINT", EndpointLine("ENTER", method, route, fileName, SnapshotText(body)))>>,
     post |-> <<>>,
     onThrow |-> <<LogEv("ERROR", "ENDPOINT", EndpointLine("ERROR", method, route, fileName, ErrorPayload))>>,
     onReject |-> <<LogEv("ERROR", "ENDPOINT", EndpointLine("ERROR", method, route, fileName, ErrorPayload))>>,
     onFinish |-> <<LogEv("EXIT", "ENDPOINT", EndpointLine("EXIT", method, route, fileName, OutText(200, dur)))>>,
     twice |-> FALSE]

\* the log statement put first in the handler body, and nothing else
EnterOnly(line) ==
    [pre |-> <<LogEv("ENTER", "ENDPOINT", line)>>, post |-> <<>>, onThrow |-> <<>>,
     onReject |-> <<>>, onFinish |-> <<>>, twice |-> FALSE]

\* ts-morph tracer: safeToString(req?.body || {})
instrumentExpressHandler(fileName, method, route, body) ==
    EnterOnly(EndpointLine("ENTER", method, route, fileName,
                  TemplateText(safeToString(IF body.t = "undefined" THEN Obj(0) ELSE body))))

\* Babel plugin: safeToString(req.body)
addEndpointLogging(fileName, method, route, body) ==
    EnterOnly(EndpointLine("ENTER", method, route, fileName, TemplateText(safeToString(body))))

\* transformer: safeToString(req.body)
addSimpleEndpointLogging(fileName, method, route, body) ==
    EnterOnly(EndpointLine("ENTER", method, route, fileName, TemplateText(safeToString(body))))

\* `${status}|FUNCTION|${fileName}|${scope}|${functionName}|${payload}` of createLogStatement
FunctionLine(status, fileName, scope, functionName, payload) ==
    status \o "|FUNCTION|" \o fileName \o "|" \o scope \o "|" \o functionName \o "|" \o payload

\* body-instrumenting draft: the endpoint log first, then createInstrumentedBody
\* around it; an arrow with an expression body becomes `return expr`, whose
\* EXIT log evaluates expr before the return statement evaluates it again
addEndpointLoggingToHandler(kind, fileName, method, route, sent) ==
    [pre |-> <<LogEv("ENTER", "FUNCTION",
                     FunctionLine("ENTER", fileName, "", "handler",
                                  TemplateText(createSafeJsonStringifyCall(<<sent[1], sent[2]>>)))),
               LogEv("", "ENDPOINT", "ENDPOINT|" \o method \o "|" \o route \o "|" \o fileName)>>,
     post |-> <<LogEv("EXIT", "FUNCTION",
                      FunctionLine("EXIT", fileName, "", "handler",
                                   IF kind = "arrow"
                                   THEN TemplateText(createSafeJsonStringifyCall(<<Undefined>>))
                                   ELSE "[]"))>>,
     onThrow |-> <<LogEv("ERROR", "FUNCTION",
                         FunctionLine("ERROR", fileName, "", "handler",
                                      "[{" \o Quote("message") \o ":" \o Quote(HandlerError.s) \o ","
                                           \o Quote("name") \o ":" \o Quote("Error") \o "}]"))>>,
     onReject |-> <<>>,
     onFinish |-> <<>>,
     twice |-> kind = "arrow"]

InlineTemplate(d, kind, fileName, method, route, sent, body, dur) ==
    CASE d = "ast" -> buildEndpointWrapperInline(fileName, method, route, body, dur)
      [] d = "tsmorph" -> instrumentExpressHandler(fileName, method, route, body)
      [] d = "babel" -> addEndpointLogging(fileName, method, route, body)
      [] d = "transformer" -> addSimpleEndpointLogging(fileName, method, route, body)
      [] OTHER -> addEndpointLoggingToHandler(kind, fileName, method, route, sent)

\* the instrumented handler up to its return to the router
RunHandler(t, b) ==
    CASE b = "throw" ->
            [events |-> t.pre \o <<BodyEv>> \o t.onThrow,
             result |-> [kind |-> "throw", state |-> "-", val |-> HandlerError]]
      [] b = "return" ->
            [events |-> t.pre \o <<BodyEv>> \o t.post \o (IF t.twice THEN <<BodyEv>> ELSE <<>>),
             result |-> [kind |-> "return", state |-> "-", val |-> Undefined]]
      [] OTHER ->
            [events |-> t.pre \o <<BodyEv>> \o t.post \o (IF t.twice THEN <<BodyEv>> ELSE <<>>),
             result |-> [kind |-> "promise", state |-> "pending", val |-> Undefined]]

HandlerBehaviours == {"return", "throw", "resolve", "reject"}
Durations == {0, 1}

NoInlineCall ==
    [kind |-> "", body |-> Undefined, hBeh |-> "", events |-> <<>>, result |-> NoOutcome,
     onReject |-> <<>>, onFinish |-> <<>>, finished |-> FALSE]

RouteFile == <<"src", "app.ts">>
Receivers == {<<"app", TRUE>>, <<"router", TRUE>>, <<"server", TRUE>>, <<"app", FALSE>>}
Verbs == EXPRESS_METHODS \cup {"use"}

NoRouteOut == [recognized |-> FALSE, raised |-> FALSE, routePath |-> "", args |-> <<>>]
NoHandlerCall ==
    [handler |-> "", sent |-> <<>>, hRet |-> Undefined, lines |-> <<>>,
     forwarded |-> <<>>, returned |-> NoOutcome]

RouteInit ==
    /\ routeDraft = "none"
    /\ routeCall \in {[receiver |-> r[1], recvIsIdent |-> r[2], verb |-> v, args |-> a] :
                        r \in Receivers, v \in Verbs, a \in SeqsUpTo(ArgNodes, MaxRouteArgs)}
    /\ routePc = "source"
    /\ routeOut = NoRouteOut
    /\ hCall = NoHandlerCall
    /\ iCall = NoInlineCall

RouteIdle ==
    /\ routeDraft = "none"
    /\ routeCall = [receiver |-> "app", recvIsIdent |-> TRUE, verb |-> "use", args |-> <<>>]
    /\ routePc = "idle"
    /\ routeOut = NoRouteOut
    /\ hCall = NoHandlerCall
    /\ iCall = NoInlineCall

\* build time: one instrumenter visits the call expression
InstrumentRoutes ==
    /\ routePc = "source"
    /\ \E d \in RouteDrafts :
          /\ routeDraft' = d
          /\ routeOut' = InstrumentRoute(d, routeCall)
    /\ routePc' = "instrumented"
    /\ UNCHANGED <<routeCall, hCall, iCall>>
    /\ UNCHANGED <<serVars, wrapVars, passVars, buildVars, supVars, nameVars, refVars, retVars>>

\* run time: the router calls a synthesized forwarding handler
Dispatch ==
    /\ routePc = "instrumented"
    /\ routeOut.recognized /\ ~routeOut.raised
    /\ \E i \in 1..Len(routeOut.args), body \in {Undefined, Obj(31)}, ret \in {Undefined, Num(1)} :
          /\ routeOut.args[i].wrapped = "ref"
          /\ ~isPathReference(routeOut.args[i])
          /\ LET sent == <<RequestLike(20), ResponseLike(21), FunctionV(22)>>
                 h == ForwardingHandler(routeDraft, routeOut.args[i].text, basename(RouteFile),
                                        toUpperCase(routeCall.verb), routeOut.routePath,
                                        sent, body, ret)
             IN  hCall' = [handler |-> routeOut.args[i].text, sent |-> sent, hRet |-> ret,
                           lines |-> h.lines, forwarded |-> h.forwarded,
                           returned |-> h.returned]
    /\ routePc' = "dispatched"
    /\ UNCHANGED <<routeDraft, routeCall, routeOut, iCall>>
    /\ UNCHANGED <<serVars, wrapVars, passVars, buildVars, supVars, nameVars, refVars, retVars>>

\* run time: the router calls an instrumented inline handler
DispatchInline ==
    /\ routePc = "instrumented"
    /\ routeOut.recognized /\ ~routeOut.raised
    /\ \E i \in 1..Len(routeOut.args), body \in {Undefined, Obj(31)},
          b \in HandlerBehaviours, dur \in Durations :
          /\ routeOut.args[i].wrapped = "inline"
          /\ iCall' = [kind |-> routeOut.args[i].kind, body |-> body, hBeh |-> b,
                       events |-> RunHandler(InlineTemplate(routeDraft, routeOut.args[i].kind,
                                      basename(RouteFile), toUpperCase(routeCall.verb),
                                      routeOut.routePath,
                                      <<RequestLike(20), ResponseLike(21), FunctionV(22)>>,
                                      body, dur), b).events,
                       result |-> RunHandler(InlineTemplate(routeDraft, routeOut.args[i].kind,
                                      basename(RouteFile), toUpperCase(routeCall.verb),
                                      routeOut.routePath,
                                      <<RequestLike(20), ResponseLike(21), FunctionV(22)>>,
                                      body, dur), b).result,
                       onReject |-> InlineTemplate(routeDraft, routeOut.args[i].kind,
                                      basename(RouteFile), toUpperCase(routeCall.verb),
                                      routeOut.routePath,
                                      <<RequestLike(20), ResponseLike(21), FunctionV(22)>>,
                                      body, dur).onReject,
                       onFinish |-> InlineTemplate(routeDraft, routeOut.args[i].kind,
                                      basename(RouteFile), toUpperCase(routeCall.verb),
                                      routeOut.routePath,
                                      <<RequestLike(20), ResponseLike(21), FunctionV(22)>>,
                                      body, dur).onFinish,
                       finished |-> FALSE]
    /\ routePc' = "handling"
    /\ UNCHANGED <<routeDraft, routeCall, routeOut, hCall>>
    /\ UNCHANGED <<serVars, wrapVars, passVars, buildVars, supVars, nameVars, refVars, retVars>>

\* the promise the original handler returned settles
SettleHandler ==
    /\ routePc = "handling"
    /\ iCall.result.kind = "promise" /\ iCall.result.state = "pending"
    /\ iCall' = IF iCall.hBeh = "resolve"
                THEN [iCall EXCEPT !.result = [kind |-> "promise", state |-> "resolved", val |-> Undefined]]
                ELSE [iCall EXCEPT !.result = [kind |-> "promise", state |-> "rejected", val |-> HandlerError],
                                   !.events = @ \o iCall.onReject]
    /\ UNCHANGED <<routeDraft, routeCall, routePc, routeOut, hCall>>
    /\ UNCHANGED <<serVars, wrapVars, passVars, buildVars, supVars, nameVars, refVars, retVars>>

\* the response is sent (by the handler, or by the router's error handler):
\* 'finish' fires once
FinishResponse ==
    /\ routePc = "handling"
    /\ ~iCall.finished
    /\ iCall' = [iCall EXCEPT !.finished = TRUE, !.events = @ \o <<FinishEv>> \o iCall.onFinish]
    /\ UNCHANGED <<routeDraft, routeCall, routePc, routeOut, hCall>>
    /\ UNCHANGED <<serVars, wrapVars, passVars, buildVars, supVars, nameVars, refVars, retVars>>

-----------------------------------------------------------------------------
(* One source file through the instrumentation pass: which constructs the  *)
(* classifier of each draft selects, the wrapper it emits for each, and    *)
(* what an invocation of a construct of the output logs.                   *)

MaxDecls == 2       \* most constructs one source file declares
MaxPasses == 2      \* most passes run over one file

PassDrafts == {"tsmorph", "transformer", "babel", "bodydraft"}

\* a construct: kind is "function" (a declaration with a body), "overload"
\* (a declaration that is a signature only), "method", "getter", "setter",
\* "funcExpr" or "arrow" (assigned to a binding declared with decl); owner
\* is the class of a member; parent the function whose body declares it
Decl(k, nm) ==
    [kind |-> k, name |-> nm, owner |-> "", decl |-> "", isAsync |-> FALSE,
     isGenerator |-> FALSE, isStatic |-> FALSE, parent |-> ""]

ConstructPool ==
    {Decl("function", "add"),
     Decl("overload", "add"),
     [Decl("function", "load") EXCEPT !.isAsync = TRUE],
     [Decl("function", "gen") EXCEPT !.isGenerator = TRUE],
     [Decl("function", "inner") EXCEPT !.parent = "add"],
     [Decl("method", "area") EXCEPT !.owner = "Calc"],
     [Decl("method", "make") EXCEPT !.owner = "Calc", !.isStatic = TRUE],
     [Decl("getter", "size") EXCEPT !.owner = "Calc"],
     [Decl("setter", "size") EXCEPT !.owner = "Calc"],
     [Decl("funcExpr", "mul") EXCEPT !.decl = "let"],
     [Decl("arrow", "sub") EXCEPT !.decl = "const"],
     [Decl("arrow", "neg") EXCEPT !.decl = "let"]}

\* a file the compiler accepts: no construct twice, an overload signature
\* directly before its implementation, a nested function after its parent
WellFormed(src) ==
    /\ \A i, j \in 1..Len(src) : i # j => src[i] # src[j]
    /\ \A i \in 1..Len(src) :
          /\ src[i].kind = "overload" =>
                i < Len(src) /\ src[i + 1] = Decl("function", src[i].name)
          /\ src[i].parent # "" =>
                \E j \in 1..(i - 1) : src[j] = Decl("function", src[i].parent)

\* the emitted wrapper of construct i: the name it logs, the binding it
\* rebinds (or the body it rewrites), its template, and whether the emitted
\* code loads where it is placed
Wrapper(i, nm, binding, template, loads) ==
    [of |-> i, name |-> nm, binding |-> binding, template |-> template, loads |-> loads]

\* the binding through which callers reach a construct
BindingOf(c) ==
    CASE c.kind \in {"method", "getter", "setter"} /\ c.isStatic -> c.owner \o "." \o c.name
      [] c.kind \in {"method", "getter", "setter"} -> c.owner \o ".prototype." \o c.name
      [] OTHER -> c.name

\* the body of a construct, for the drafts that rewrite bodies in place
BodyOf(c) == "body of " \o c.kind \o " " \o BindingOf(c)

SyncOrAsync(isAsync) == IF isAsync THEN "async" ELSE "sync"

\* ts-morph tracer: the rule of the if / else-if chain that takes the node
\* (0: none).  Rule 4 repeats the test of rule 3 and rule 5 the test of
\* rule 1, so neither is ever taken; accessors match no rule.
findAllNamedFunctionsRule(c) ==
    IF c.kind \in {"function", "overload"} THEN 1
    ELSE IF c.kind = "method" THEN 2
    ELSE IF c.kind \in {"arrow", "funcExpr"} THEN (IF c.kind = "arrow" THEN 3 ELSE 0)
    ELSE IF c.kind \in {"arrow", "funcExpr"} THEN 4
    ELSE IF c.kind \in {"function", "overload"} /\ c.isGenerator THEN 5
    ELSE 0

\* createGeneratorWrapper: function*(...args) { ENTER; try { yield* original } ... }
createGeneratorWrapper(i, functionName, isAsync) ==
    Wrapper(i, functionName, functionName, "generator", TRUE)

\* forEachDescendant reaches every node, nested ones too; the wrapper block
\* is appended to the file, outside the body that declares a nested name,
\* and assigns to the binding, which a const binding refuses
tracerWrappers(c, i) ==
    CASE findAllNamedFunctionsRule(c) = 1 ->
            <<Wrapper(i, c.name, c.name, createStandaloneWrapper(c.name, c.isAsync, "").kind,
                      c.parent = "")>>
      [] findAllNamedFunctionsRule(c) = 2 ->
            <<Wrapper(i, c.name, BindingOf(c),
                      createClassMethodWrapper(c.name, c.isAsync, "", c.owner, c.isStatic).kind,
                      TRUE)>>
      [] findAllNamedFunctionsRule(c) \in {3, 4} ->
            <<Wrapper(i, c.name, c.name, createStandaloneWrapper(c.name, c.isAsync, "").kind,
                      c.parent = "" /\ c.decl # "const")>>
      [] findAllNamedFunctionsRule(c) = 5 -> <<createGeneratorWrapper(i, c.name, c.isAsync)>>
      [] OTHER -> <<>>

\* transformer visitor: it returns a matched node without visiting its
\* children, so nothing nested in a matched construct is reached; every
\* wrapper rebinds a bare name at the end of the file
transformerWrappers(c, i) ==
    IF c.parent # "" THEN <<>>
    ELSE CASE c.kind \in {"function", "overload"} ->
                 <<Wrapper(i, c.name, c.name, SyncOrAsync(c.isAsync), TRUE)>>
           [] c.kind \in {"funcExpr", "arrow"} ->
                 <<Wrapper(i, c.name, c.name, SyncOrAsync(c.isAsync), c.decl # "const")>>
           [] c.kind = "method" ->
                 <<Wrapper(i, c.name, c.name, SyncOrAsync(c.isAsync), FALSE)>>
           [] c.kind = "getter" ->
                 <<Wrapper(i, "get_" \o c.name, "get_" \o c.name, SyncOrAsync(c.isAsync), FALSE)>>
           [] c.kind = "setter" ->
                 <<Wrapper(i, "set_" \o c.name, "set_" \o c.name, SyncOrAsync(c.isAsync), FALSE)>>
           [] OTHER -> <<>>

\* Babel plugin: node.id of a declaration, node.key of a class member; a
\* Babel node has no parent property, so a function assigned to a binding
\* has no name; an overload signature is no Function node
getFunctionName(c) ==
    IF c.kind = "function" \/ c.kind \in {"method", "getter", "setter"} THEN c.name ELSE ""

\* injectLogging moves the statements into an arrow function, where the
\* yield of a generator is a syntax error
babelWrappers(c, i) ==
    IF getFunctionName(c) = "" THEN <<>>
    ELSE <<Wrapper(i, getFunctionName(c), BodyOf(c), SyncOrAsync(c.isAsync), ~c.isGenerator)>>

\* body-instrumenting draft: declarations with a body, arrows, methods and
\* function expressions; the visitor does not go into an instrumented body
bodyDraftWrappers(c, i) ==
    IF c.parent # "" \/ c.kind \in {"overload", "getter", "setter"} THEN <<>>
    ELSE <<Wrapper(i, c.name, BodyOf(c), "body", TRUE)>>

WrappersFor(d, c, i) ==
    CASE d = "tsmorph" -> tracerWrappers(c, i)
      [] d = "transformer" -> transformerWrappers(c, i)
      [] d = "babel" -> babelWrappers(c, i)
      [] OTHER -> bodyDraftWrappers(c, i)

RECURSIVE Classify(_, _, _)
Classify(d, src, i) ==
    IF i > Len(src) THEN <<>> ELSE WrappersFor(d, src[i], i) \o Classify(d, src, i + 1)

\* the helper the previous pass put into the file is a function declaration
\* like any other for the next pass
SafeToStringDecl == Decl("function", "safeToString")
HelperWrappers(d, n) == IF n = 0 THEN <<>> ELSE WrappersFor(d, SafeToStringDecl, 0)

\* the helper is injected by the tracer, the transformer and the Babel build
InjectsHelper(d) == d # "bodydraft"

NoRun == [target |-> 0, beh |-> "", phases |-> <<>>, state |-> "none", yielded |-> <<>>]

PassInit ==
    /\ passDraft \in PassDrafts
    /\ source \in {src \in SeqsUpTo(ConstructPool, MaxDecls) : src # <<>> /\ WellFormed(src)}
    /\ helpers = 0
    /\ emitted = <<>>
    /\ passes = 0
    /\ run = NoRun

PassIdle ==
    /\ passDraft = "none"
    /\ source = <<>>
    /\ helpers = 0
    /\ emitted = <<>>
    /\ passes = -1
    /\ run = NoRun

\* one pass over the file as it stands: the wrappers of the pass are
\* appended to those the file already carries
RunPass ==
    /\ passes >= 0 /\ passes < MaxPasses
    /\ run = NoRun
    /\ emitted' = emitted \o Classify(passDraft, source, 1) \o HelperWrappers(passDraft, helpers)
    /\ helpers' = helpers + (IF InjectsHelper(passDraft) THEN 1 ELSE 0)
    /\ passes' = passes + 1
    /\ UNCHANGED <<passDraft, source, run>>
    /\ UNCHANGED <<serVars, wrapVars, routeVars, buildVars, supVars, nameVars, refVars, retVars>>

RECURSIVE Repeat(_, _)
Repeat(x, k) == IF k = 0 THEN <<>> ELSE <<x>> \o Repeat(x, k - 1)

IsWrapperOn(w, c) == w.binding \in {BindingOf(c), BodyOf(c)}
WrappersOn(c) == SelectSeq(emitted, LAMBDA w : IsWrapperOn(w, c))
FileLoads == \A k \in 1..Len(emitted) : emitted[k].loads
HelperWrapped == \E k \in 1..Len(emitted) : emitted[k].name = "safeToString"

\* the wrappers stacked on a binding run outermost first; a wrapped
\* safeToString logs its own ENTER through safeToString and never returns
InvocationPhases(k, b) ==
    IF k > 0 /\ HelperWrapped THEN <<>>
    ELSE Repeat("ENTER", k) \o <<"body">> \o Repeat(IF b = "return" THEN "EXIT" ELSE "ERROR", k)

\* a caller invokes a top-level construct of the loaded output
InvokeConstruct ==
    /\ passes >= 1
    /\ run = NoRun
    /\ FileLoads
    /\ \E i \in 1..Len(source), b \in {"return", "throw"} :
          /\ source[i].kind # "overload" /\ ~source[i].isGenerator /\ source[i].parent = ""
          /\ run' = [target |-> i, beh |-> b,
                     phases |-> InvocationPhases(Len(WrappersOn(source[i])), b),
                     state |-> IF b = "throw" \/ (WrappersOn(source[i]) # <<>> /\ HelperWrapped)
                               THEN "raised" ELSE "returned",
                     yielded |-> <<>>]
    /\ UNCHANGED <<passDraft, source, helpers, emitted, passes>>
    /\ UNCHANGED <<serVars, wrapVars, routeVars, buildVars, supVars, nameVars, refVars, retVars>>

\* what the original generator yields before it completes
GenValues == <<1, 2>>

\* the template around a generator construct ("" when it has no wrapper)
GenTemplate(c) == IF WrappersOn(c) = <<>> THEN "" ELSE WrappersOn(c)[1].template

\* a template whose logging statements sit inside a generator body
LogsInsideGenerator(t) == t \in {"generator", "body"}

\* a caller invokes a generator construct: the ordinary template logs ENTER,
\* calls the original, which only creates the generator object, and logs
\* EXIT; a generator body does not start before the first next()
InvokeGenerator ==
    /\ passes = 1
    /\ run = NoRun
    /\ FileLoads
    /\ \E i \in 1..Len(source), b \in {"complete", "throw"} :
          /\ source[i].isGenerator
          /\ run' = [target |-> i, beh |-> b,
                     phases |-> IF GenTemplate(source[i]) \in {"sync", "async"}
                                THEN <<"ENTER", "EXIT">> ELSE <<>>,
                     state |-> "created", yielded |-> <<>>]
    /\ UNCHANGED <<passDraft, source, helpers, emitted, passes>>
    /\ UNCHANGED <<serVars, wrapVars, routeVars, buildVars, supVars, nameVars, refVars, retVars>>

GenStarts(r, t) ==
    IF r.state = "created" /\ LogsInsideGenerator(t) THEN <<"ENTER">> ELSE <<>>

\* the caller's next(): the original yields its next value, completes, or
\* throws after its first value
GenStep(r, t) ==
    IF r.beh = "throw" /\ Len(r.yielded) = 1
    THEN [r EXCEPT !.state = "threw",
                   !.phases = @ \o GenStarts(r, t)
                                \o (IF LogsInsideGenerator(t) THEN <<"ERROR">> ELSE <<>>)]
    ELSE IF Len(r.yielded) < Len(GenValues)
    THEN [r EXCEPT !.state = "running",
                   !.phases = @ \o GenStarts(r, t),
                   !.yielded = Append(@, GenValues[Len(r.yielded) + 1])]
    ELSE [r EXCEPT !.state = "completed",
                   !.phases = @ \o GenStarts(r, t)
                                \o (IF LogsInsideGenerator(t) THEN <<"EXIT">> ELSE <<>>)]

NextGenerator ==
    /\ run.state \in {"created", "running"}
    /\ run' = GenStep(run, GenTemplate(source[run.target]))
    /\ UNCHANGED <<passDraft, source, helpers, emitted, passes>>
    /\ UNCHANGED <<serVars, wrapVars, routeVars, buildVars, supVars, nameVars, refVars, retVars>>

\* ---------------------------------------------------------------------
\* The build step: a source tree is instrumented into an output directory.
\* buildWithBabel (build-with-babel.ts) and the three versions of
\* buildWithInstrumentation (build script: ts-morph pass through a temp
\* directory; compiler emit with transformers, with and without a report
\* of the diagnostics). tsconfig.json is present.
\* ---------------------------------------------------------------------
MaxBuilds == 3

FileOrder == <<"a.ts", "b.ts">>
Files == {FileOrder[k] : k \in 1..Len(FileOrder)}

InTree(t, f) == f \in t

\* the .ts files of a directory, in directory order
getTypeScriptFiles(t) == SelectSeq(FileOrder, LAMBDA f : InTree(t, f))

Builders == {"babel", "tsmorph", "emit", "emitQuiet"}

\* how a build is started: by calling the build function, or by the
\* rebuild() of a dev supervisor
Entries == {"direct", "devBabel", "devInstrumented", "devWatch"}

Starts ==
    ({"direct", "devBabel"} \X {"babel"})
        \cup ({"direct", "devInstrumented", "devWatch"} \X {"tsmorph", "emit", "emitQuiet"})

\* an emitted file: where it comes from and what the instrumentation added
\* to the text of its source (import paths are rewritten in every build)
Artifact(f, kind, added) == [src |-> f, kind |-> kind, added |-> added]
PackageJson == Artifact("", "package.json", {})

\* the two versions of createFunctionTracerTransformer: without parameters,
\* and with an options parameter
Transformers == {"plain", "options"}

\* the transformer the emit builds pass to program.emit: the version with
\* options returns the identity when enabled is false; the version
\* without parameters ignores the argument it is called with
createFunctionTracerTransformer(transformer, enabled) ==
    IF transformer = "options"
    THEN IF enabled THEN {"log", "routeWrapper"} ELSE {}
    ELSE {"helper", "wrapper", "log"}

\* instrumentFile of the ts-morph tracer: endpoint wrappers, the serializer
\* helper and the wrapper blocks
instrumentSourceCode == {"routeWrapper", "helper", "wrapper"}

\* buildWithBabel: the plugin's log statements and safeToStringCode
babelTransform == {"helper", "log"}

\* what a build adds to each file it emits
Instrumentation(b) ==
    CASE b.builder = "babel" -> babelTransform
      [] b.builder = "tsmorph" -> instrumentSourceCode
      [] OTHER -> createFunctionTracerTransformer(b.transformer, b.enabled)

Report(text, f) == [text |-> text, file |-> f]

\* rebuild() of dev-babel.ts and dev-instrumented.ts removes OUTPUT_DIR;
\* the rebuild() of the fs.watch supervisor does not
clearOutputDirectory(entry, out) ==
    IF entry \in {"devBabel", "devInstrumented"} THEN {} ELSE out

\* the first statements of the build function: buildWithBabel removes
\* outDir and makes it again, buildWithInstrumentation leaves it as it is
StartTree(entry, builder, out) ==
    IF builder = "babel" THEN {} ELSE clearOutputDirectory(entry, out)

NoBuild ==
    [pc |-> "idle", entry |-> "none", builder |-> "none", files |-> <<>>,
     todo |-> <<>>, noEmitOnError |-> FALSE, failed |-> {}, reports |-> <<>>,
     status |-> "none", enabled |-> TRUE, transformer |-> "none", wrote |-> {}]

\* the options of one call: buildWithBabel takes none
BuildOptions ==
    [builder : {"babel"}, enabled : {TRUE}, transformer : {"none"}]
        \cup [builder : {"tsmorph"}, enabled : BOOLEAN, transformer : {"none"}]
        \cup [builder : {"emit", "emitQuiet"}, enabled : BOOLEAN, transformer : Transformers]

WithOptions(b, o) == [b EXCEPT !.enabled = o.enabled, !.transformer = o.transformer]

StartRecord(entry, builder, noEmitOnError, t) ==
    [pc |-> "files", entry |-> entry, builder |-> builder,
     files |-> getTypeScriptFiles(t),
     todo |-> IF builder \in {"babel", "tsmorph"} THEN getTypeScriptFiles(t) ELSE <<>>,
     noEmitOnError |-> noEmitOnError, failed |-> {}, reports |-> <<>>,
     status |-> "none", enabled |-> TRUE, transformer |-> "none", wrote |-> {}]

BuildInit ==
    /\ tree \in (SUBSET Files) \ {{}}
    /\ broken \in SUBSET Files
    /\ outTree = {}
    /\ build = NoBuild
    /\ builds = 0

BuildIdle ==
    /\ tree = {}
    /\ broken = {}
    /\ outTree = {}
    /\ build = NoBuild
    /\ builds = -1

\* a build is started; the builds of one process are synchronous, so the
\* previous one has returned or thrown
StartBuild ==
    /\ build.pc \in {"idle", "done"}
    /\ builds < MaxBuilds
    /\ \E s \in Starts, noEmitOnError \in BOOLEAN :
          /\ outTree' = StartTree(s[1], s[2], outTree)
          /\ \E o \in {x \in BuildOptions : x.builder = s[2]} :
                build' = WithOptions(StartRecord(s[1], s[2], noEmitOnError, tree), o)
    /\ builds' = builds + 1
    /\ UNCHANGED <<tree, broken>>
    /\ UNCHANGED <<serVars, wrapVars, routeVars, passVars, supVars, nameVars, refVars, retVars>>

\* buildWithBabel: one turn of the loop over the files
babelFile(b, f, isBroken) ==
    IF isBroken
    THEN [b EXCEPT !.todo = Tail(@), !.failed = @ \cup {f},
                   !.reports = Append(@, Report("Error processing", f))]
    ELSE [b EXCEPT !.todo = Tail(@)]

\* buildWithInstrumentation, ts-morph version: one turn of the loop; the
\* catch clause reports the path and throws again
tsmorphFile(b, f, isBroken) ==
    IF isBroken
    THEN [b EXCEPT !.pc = "done", !.failed = @ \cup {f}, !.status = "threw",
                   !.reports = Append(@, Report("Failed to instrument", f))]
    ELSE [b EXCEPT !.todo = Tail(@)]

FileArtifact(b, f) ==
    IF b.builder = "babel" THEN Artifact(f, "js", Instrumentation(b))
    ELSE Artifact(f, "temp", Instrumentation(b))

Wrote(b, arts) == [b EXCEPT !.wrote = @ \cup arts]

ProcessFile ==
    /\ build.pc = "files"
    /\ build.todo # <<>>
    /\ outTree' = IF Head(build.todo) \in broken THEN outTree
                  ELSE outTree \cup {FileArtifact(build, Head(build.todo))}
    /\ build' = Wrote(IF build.builder = "babel"
                      THEN babelFile(build, Head(build.todo), Head(build.todo) \in broken)
                      ELSE tsmorphFile(build, Head(build.todo), Head(build.todo) \in broken),
                      outTree' \ outTree)
    /\ UNCHANGED <<tree, broken, builds>>
    /\ UNCHANGED <<serVars, wrapVars, routeVars, passVars, supVars, nameVars, refVars, retVars>>

TempFiles(out) == {a \in out : a.kind = "temp"}

\* ts-morph version after the loop: every file under temp is compiled,
\* temp is removed, package.json is written
Compiled(out) == {Artifact(a.src, "js", a.added) : a \in TempFiles(out)}

compileTemp(out) == ((out \ TempFiles(out)) \cup Compiled(out)) \cup {PackageJson}

FailedIn(b, bad) == {b.files[k] : k \in {j \in 1..Len(b.files) : b.files[j] \in bad}}

emitSkipped(b, bad) == b.noEmitOnError /\ FailedIn(b, bad) # {}

\* program.emit with the transformers: a file that does not parse yields
\* diagnostics, and output is written unless noEmitOnError is set
Emitted(b, bad) ==
    IF emitSkipped(b, bad) THEN {}
    ELSE {Artifact(b.files[k], "js", Instrumentation(b)) : k \in 1..Len(b.files)}

emitProgram(b, bad, out) == (out \cup Emitted(b, bad)) \cup {PackageJson}

\* the files the last stage of a build writes
FinishWrites(b, bad, out) ==
    CASE b.builder = "babel" -> {}
      [] b.builder = "tsmorph" -> Compiled(out) \cup {PackageJson}
      [] OTHER -> Emitted(b, bad) \cup {PackageJson}

Diagnostics(b, bad) ==
    SelectSeq([k \in 1..Len(b.files) |-> Report("diagnostic", b.files[k])],
              LAMBDA r : InTree(bad, r.file))

\* what the build function returns
buildResult(b, bad) ==
    CASE b.builder = "babel" -> [b EXCEPT !.pc = "done", !.status = "undefined"]
      [] b.builder = "tsmorph" -> [b EXCEPT !.pc = "done", !.status = "0"]
      [] b.builder = "emit" ->
            [b EXCEPT !.pc = "done", !.failed = FailedIn(b, bad),
                      !.reports = Diagnostics(b, bad),
                      !.status = IF emitSkipped(b, bad) THEN "1" ELSE "0"]
      [] OTHER ->
            [b EXCEPT !.pc = "done", !.failed = FailedIn(b, bad),
                      !.status = IF emitSkipped(b, bad) THEN "1" ELSE "0"]

Finish ==
    /\ build.pc = "files"
    /\ build.todo = <<>>
    /\ outTree' = CASE build.builder = "babel" -> outTree
                    [] build.builder = "tsmorph" -> compileTemp(outTree)
                    [] OTHER -> emitProgram(build, broken, outTree)
    /\ build' = Wrote(buildResult(build, broken), FinishWrites(build, broken, outTree))
    /\ UNCHANGED <<tree, broken, builds>>
    /\ UNCHANGED <<serVars, wrapVars, routeVars, passVars, supVars, nameVars, refVars, retVars>>

\* a source file is deleted between two builds
DeleteSource ==
    /\ build.pc \in {"idle", "done"}
    /\ \E f \in tree : tree' = tree \ {f}
    /\ UNCHANGED <<broken, outTree, build, builds>>
    /\ UNCHANGED <<serVars, wrapVars, routeVars, passVars, supVars, nameVars, refVars, retVars>>

\* ---------------------------------------------------------------------
\* The dev supervisors: a watcher reports file changes, rebuild() kills the
\* server, clears the output, builds and starts the server again.
\*   devBabel        dev-babel.ts        (chokidar, debounce timer)
\*   devInstrumented dev-instrumented.ts (chokidar)
\*   devDebounce     the fs.watch supervisor with rebuildTimeout
\*   devWatch        the fs.watch supervisor with setTimeout(startServer)
\* The process is single-threaded: a callback runs while no other does
\* (supPc = "idle"); files may change at any time.
\* ---------------------------------------------------------------------
MaxSupBuilds == 3
MaxEdits == 3
MaxQueue == 2

Supervisors == {"devBabel", "devInstrumented", "devDebounce", "devWatch"}

SupBuilders(sv) == IF sv = "devBabel" THEN {"babel"} ELSE {"tsmorph", "emit"}

Path(dir, ext) == [dir |-> dir, ext |-> ext]
StartupPath == Path("", "startup")

\* the files somebody may change
EditPaths ==
    {Path("src", "ts"), Path("src", "env"), Path("src", "md"),
     Path("node_modules", "ts"), Path("tracing", "ts")}

\* chokidar's ignored option; fs.watch has none
Ignored(sv, p) ==
    sv \in {"devBabel", "devInstrumented"}
        /\ p.dir \in {"node_modules", "dist", ".git", "tracing"}

\* the test of the watcher callback on the path
Qualifies(p) == p.ext \in {"ts", "tsx", "env"}

QualifyingIn(q) == Cardinality({k \in 1..Len(q) : Qualifies(q[k])})

\* an event the watcher reports is queued for the callback
Notify(sv, q, p) ==
    IF Ignored(sv, p) \/ Len(q) >= MaxQueue THEN q ELSE Append(q, p)

Arrived(sv, q, p) == IF Notify(sv, q, p) # q /\ Qualifies(p) THEN 1 ELSE 0

NoRebuild ==
    [trigger |-> StartupPath, armedBy |-> StartupPath, threw |-> FALSE,
     started |-> FALSE, queued |-> 0, fresh |-> 0, arrived |-> 0]

\* the first statement of rebuild() in each supervisor
FirstStep(sv) == IF sv = "devWatch" THEN "build" ELSE "kill"

\* the script has been loaded and calls rebuild() once
SupInit ==
    /\ sup \in Supervisors
    /\ supBuilder \in SupBuilders(sup)
    /\ supPc = FirstStep(sup)
    /\ serverProcess = 0
    /\ alive = {}
    /\ spawned = 0
    /\ pendingTimers = 0
    /\ startTimers = 0
    /\ queue = <<>>
    /\ entryFile \in BOOLEAN
    /\ rb = NoRebuild
    /\ supBuilds = 0
    /\ edits = 0

SupIdle ==
    /\ sup = "none"
    /\ supBuilder = "none"
    /\ supPc = "off"
    /\ serverProcess = 0
    /\ alive = {}
    /\ spawned = 0
    /\ pendingTimers = 0
    /\ startTimers = 0
    /\ queue = <<>>
    /\ entryFile = FALSE
    /\ rb = NoRebuild
    /\ supBuilds = 0
    /\ edits = 0

\* a file changes and the watcher notices it
FileChange ==
    /\ supPc # "off"
    /\ edits < MaxEdits
    /\ \E p \in EditPaths :
          /\ queue' = Notify(sup, queue, p)
          /\ rb' = [rb EXCEPT !.arrived = @ + Arrived(sup, queue, p)]
    /\ edits' = edits + 1
    /\ UNCHANGED <<sup, supBuilder, supPc, serverProcess, alive, spawned,
                   pendingTimers, startTimers, entryFile, supBuilds>>
    /\ UNCHANGED <<serVars, wrapVars, routeVars, passVars, buildVars, nameVars, refVars, retVars>>

\* bookkeeping when the build of a rebuild is set going: what triggered it,
\* which events still wait, how many arrived since the build before
BeginBuild(r, p, q) ==
    [r EXCEPT !.trigger = p, !.threw = FALSE, !.started = FALSE,
              !.queued = QualifyingIn(q), !.fresh = r.arrived, !.arrived = 0]

\* if (rebuildTimeout) clearTimeout(rebuildTimeout); rebuildTimeout = setTimeout(...)
clearTimeout(n) == IF n > 0 THEN n - 1 ELSE 0
setTimeout(n) == n + 1

\* the watcher callback on the next event
onChange(sv, r, p, q) ==
    CASE ~Qualifies(p) -> [pc |-> "idle", timers |-> pendingTimers, rb |-> r]
      [] sv = "devBabel" ->
            [pc |-> "idle", timers |-> setTimeout(clearTimeout(pendingTimers)),
             rb |-> [r EXCEPT !.armedBy = p]]
      [] sv = "devDebounce" ->
            [pc |-> "kill", timers |-> pendingTimers, rb |-> [r EXCEPT !.armedBy = p]]
      [] OTHER ->
            [pc |-> FirstStep(sv), timers |-> pendingTimers, rb |-> BeginBuild(r, p, q)]

Deliver ==
    /\ supPc = "idle"
    /\ queue # <<>>
    /\ queue' = Tail(queue)
    /\ supPc' = onChange(sup, rb, Head(queue), Tail(queue)).pc
    /\ pendingTimers' = onChange(sup, rb, Head(queue), Tail(queue)).timers
    /\ rb' = onChange(sup, rb, Head(queue), Tail(queue)).rb
    /\ UNCHANGED <<sup, supBuilder, serverProcess, alive, spawned, startTimers,
                   entryFile, supBuilds, edits>>
    /\ UNCHANGED <<serVars, wrapVars, routeVars, passVars, buildVars, nameVars, refVars, retVars>>

\* the debounce timer fires; the events that arrived before are delivered
\* before it
TimerFire ==
    /\ supPc = "idle"
    /\ pendingTimers > 0
    /\ queue = <<>>
    /\ pendingTimers' = pendingTimers - 1
    /\ supPc' = IF sup = "devBabel" THEN "kill" ELSE "build"
    /\ rb' = BeginBuild(rb, rb.armedBy, queue)
    /\ UNCHANGED <<sup, supBuilder, serverProcess, alive, spawned, startTimers,
                   queue, entryFile, supBuilds, edits>>
    /\ UNCHANGED <<serVars, wrapVars, routeVars, passVars, buildVars, nameVars, refVars, retVars>>

killServerNot(tracked, living) == [tracked |-> tracked, living |-> living]

\* if (serverProcess) { serverProcess.kill(); serverProcess = null }
killServer(tracked, living) == [tracked |-> 0, living |-> living \ {tracked}]

KillServer ==
    /\ supPc = "kill"
    /\ serverProcess' = killServer(serverProcess, alive).tracked
    /\ alive' = killServer(serverProcess, alive).living
    /\ supPc' = "clear"
    /\ UNCHANGED <<sup, supBuilder, spawned, pendingTimers, startTimers, queue,
                   entryFile, rb, supBuilds, edits>>
    /\ UNCHANGED <<serVars, wrapVars, routeVars, passVars, buildVars, nameVars, refVars, retVars>>

\* clearOutputDirectory(); the fs.watch supervisor then arms its timer
ClearOutput ==
    /\ supPc = "clear"
    /\ entryFile' = FALSE
    /\ supPc' = IF sup = "devDebounce" THEN "idle" ELSE "build"
    /\ pendingTimers' = IF sup = "devDebounce"
                        THEN setTimeout(clearTimeout(pendingTimers))
                        ELSE pendingTimers
    /\ UNCHANGED <<sup, supBuilder, serverProcess, alive, spawned, startTimers,
                   queue, rb, supBuilds, edits>>
    /\ UNCHANGED <<serVars, wrapVars, routeVars, passVars, buildVars, nameVars, refVars, retVars>>

\* how a build ends: it returns, or it throws before or after the entry
\* file was written
BuildOutcomes == {"ok", "threwEarly", "threwLate"}

\* the file a build writes that a watcher without ignore list reports
WrittenPath(b) == IF b = "tsmorph" THEN Path("dist", "ts") ELSE Path("dist", "js")

\* after the try statement around the build: dev-babel.ts returns from the
\* catch clause, dev-instrumented.ts goes on to startServer(), the fs.watch
\* supervisors start the server inside the try block
afterBuild(sv, o) ==
    CASE sv = "devInstrumented" -> "start"
      [] o # "ok" -> "idle"
      [] sv = "devWatch" -> "idle"
      [] OTHER -> "start"

RunBuild ==
    /\ supPc = "build"
    /\ supBuilds < MaxSupBuilds
    /\ \E o \in BuildOutcomes :
          /\ entryFile' = (entryFile \/ o # "threwEarly")
          /\ supPc' = afterBuild(sup, o)
          /\ rb' = [rb EXCEPT !.threw = (o # "ok"),
                              !.arrived = @ + Arrived(sup, queue, WrittenPath(supBuilder))]
          /\ startTimers' = IF sup = "devWatch" /\ o = "ok"
                            THEN startTimers + 1 ELSE startTimers
    /\ queue' = Notify(sup, queue, WrittenPath(supBuilder))
    /\ supBuilds' = supBuilds + 1
    /\ UNCHANGED <<sup, supBuilder, serverProcess, alive, spawned, pendingTimers, edits>>
    /\ UNCHANGED <<serVars, wrapVars, routeVars, passVars, buildVars, nameVars, refVars, retVars>>

\* startServer(): spawn when the entry file exists
spawnServer(tracked, exists, n) == IF exists THEN n + 1 ELSE tracked

StartServer ==
    /\ supPc = "start"
    /\ serverProcess' = spawnServer(serverProcess, entryFile, spawned)
    /\ alive' = IF entryFile THEN alive \cup {spawned + 1} ELSE alive
    /\ spawned' = IF entryFile THEN spawned + 1 ELSE spawned
    /\ rb' = [rb EXCEPT !.started = entryFile]
    /\ supPc' = "idle"
    /\ UNCHANGED <<sup, supBuilder, pendingTimers, startTimers, queue, entryFile,
                   supBuilds, edits>>
    /\ UNCHANGED <<serVars, wrapVars, routeVars, passVars, buildVars, nameVars, refVars, retVars>>

\* setTimeout(startServer, 500) fires: this startServer() kills the tracked
\* process before it spawns
DelayedStart ==
    /\ supPc = "idle"
    /\ startTimers > 0
    /\ startTimers' = startTimers - 1
    /\ serverProcess' = spawnServer(0, entryFile, spawned)
    /\ alive' = IF entryFile THEN (alive \ {serverProcess}) \cup {spawned + 1}
                ELSE alive \ {serverProcess}
    /\ spawned' = IF entryFile THEN spawned + 1 ELSE spawned
    /\ UNCHANGED <<sup, supBuilder, supPc, pendingTimers, queue, entryFile, rb,
                   supBuilds, edits>>
    /\ UNCHANGED <<serVars, wrapVars, routeVars, passVars, buildVars, nameVars, refVars, retVars>>

\* ---------------------------------------------------------------------
\* Names given by the body-instrumenting transformer.  One transformer is
\* applied to the source files of a program one after the other; its
\* visitor names every function-like node it instruments.
\* ---------------------------------------------------------------------
MaxFiles == 2
MaxNodes == 2

\* function-like nodes: a named declaration, `export default function () {}`,
\* an arrow function bound to a variable, an arrow function passed as an
\* argument, a method with a computed name, and inline route handlers
NodeKinds ==
    {"function", "anonFunction", "boundArrow", "anonArrow", "computedMethod",
     "routeArrow", "routeFunction"}

DeclaredName(kind) ==
    CASE kind = "function" -> "f"
      [] kind = "boundArrow" -> "g"
      [] OTHER -> ""

Contents == SeqsUpTo(NodeKinds, MaxNodes)

Given(kind, name, counter) == [kind |-> kind, name |-> name, counter |-> counter]

\* addEndpointLoggingToHandler: handler.name?.text || 'handler'
handlerName(kind) == "handler"

\* the visitor: name || (++anonymousCounter).toString(); a route call is
\* taken first and its inline handler is named by addEndpointLoggingToHandler
visitor(kind, counter) ==
    CASE kind \in {"routeArrow", "routeFunction"} -> Given(kind, handlerName(kind), counter)
      [] DeclaredName(kind) # "" -> Given(kind, DeclaredName(kind), counter)
      [] OTHER -> Given(kind, ToString(counter + 1), counter + 1)

NamesInit ==
    /\ fileNo = 0
    /\ content = <<>>
    /\ todoNodes = <<>>
    /\ anonymousCounter = 0
    /\ given = <<>>
    /\ finished = <<>>

NamesIdle ==
    /\ fileNo = -1
    /\ content = <<>>
    /\ todoNodes = <<>>
    /\ anonymousCounter = 0
    /\ given = <<>>
    /\ finished = <<>>

Done(f, c, g) == IF f = 0 THEN <<>> ELSE <<[content |-> c, given |-> g]>>

\* the transformer is applied to the next source file:
\* let scopeStack = []; let anonymousCounter = 0
TransformFile ==
    /\ fileNo >= 0
    /\ fileNo < MaxFiles
    /\ todoNodes = <<>>
    /\ \E c \in Contents : content' = c /\ todoNodes' = c
    /\ fileNo' = fileNo + 1
    /\ anonymousCounter' = 0
    /\ given' = <<>>
    /\ finished' = finished \o Done(fileNo, content, given)
    /\ UNCHANGED <<serVars, wrapVars, routeVars, passVars, buildVars, supVars, refVars, retVars>>

\* the visitor reaches the next function-like node
VisitNode ==
    /\ todoNodes # <<>>
    /\ given' = Append(given, visitor(Head(todoNodes), anonymousCounter))
    /\ anonymousCounter' = visitor(Head(todoNodes), anonymousCounter).counter
    /\ todoNodes' = Tail(todoNodes)
    /\ UNCHANGED <<fileNo, content, finished>>
    /\ UNCHANGED <<serVars, wrapVars, routeVars, passVars, buildVars, supVars, refVars, retVars>>

-----------------------------------------------------------------------------
(* The ts-morph tracer on the text of a registration recv.verb('path', h). *)
(* Text is a sequence of characters; a longer element stands for a run of  *)
(* text that none of the names below occurs in.                            *)

TextApp == <<"a", "p", "p">>
TextRouter == <<"r", "o", "u", "t", "e", "r">>
TextGet == <<"g", "e", "t">>
TextPost == <<"p", "o", "s", "t">>
TextHealth == <<"h", "e", "a", "l", "t", "h">>
TextUsers == <<"u", "s", "e", "r", "s">>
TextList == <<"l", "i", "s", "t">>

RefReceivers == {TextApp, TextRouter}
RefVerbs == {TextGet, TextPost}
RefPaths == {<<"/">> \o TextHealth, <<"/">> \o TextUsers, <<"/">> \o TextApp}
RefHandlers == {TextHealth, TextUsers, TextList, TextApp, TextGet, <<"h">>}
RefPreludes == {<<>>, <<"const app = express(); ">>}
RefFileName == <<"routes.ts">>

UpperChar(c) ==
    CASE c = "g" -> "G" [] c = "e" -> "E" [] c = "t" -> "T" [] c = "p" -> "P"
      [] c = "o" -> "O" [] c = "s" -> "S" [] OTHER -> c
toUpperCaseText(t) == [i \in 1..Len(t) |-> UpperChar(t[i])]

\* node.getText() of the call expression
getText(receiver, verb, path, handler) ==
    receiver \o <<".">> \o verb \o <<"(", "'">> \o path \o <<"'", ",", " ">>
        \o handler \o <<")">>

Occurrences(text, pattern) ==
    {i \in 1..(Len(text) - Len(pattern) + 1) :
        SubSeq(text, i, i + Len(pattern) - 1) = pattern}
Least(S) == CHOOSE i \in S : \A j \in S : i <= j

\* String.prototype.replace with a string pattern: the first occurrence
replace(text, pattern, replacement) ==
    IF Occurrences(text, pattern) = {} THEN text
    ELSE SubSeq(text, 1, Least(Occurrences(text, pattern)) - 1) \o replacement
            \o SubSeq(text, Least(Occurrences(text, pattern)) + Len(pattern), Len(text))

\* instrumentFunctionReference: the arrow function that logs and forwards
referenceWrapper(functionName, method, path, fileName) ==
    <<"(req, res, next) => { console.log(ENTER|ENDPOINT|">> \o method \o <<"|">>
        \o path \o <<"|">> \o fileName
        \o <<"|safeToString(req?.body)); return ">> \o functionName
        \o <<"(req, res); }">>

\* findExpressEndpoints on a registration whose second argument is an identifier
endpointOf(c) ==
    [method |-> toUpperCaseText(c.verb),
     path |-> c.path,
     original |-> getText(c.receiver, c.verb, c.path, c.handler),
     instrumented |->
        replace(getText(c.receiver, c.verb, c.path, c.handler), c.handler,
                referenceWrapper(c.handler, toUpperCaseText(c.verb), c.path, RefFileName))]

RECURSIVE applyEndpointInstrumentation(_, _)
applyEndpointInstrumentation(sourceCode, eps) ==
    IF eps = <<>> THEN sourceCode
    ELSE applyEndpointInstrumentation(
            replace(sourceCode, Head(eps).original, Head(eps).instrumented), Tail(eps))

\* instrumentedCode + safeSerializerCode + wrapperCode, blank lines between
Appended == <<"function safeToString", "wrappers">>

RefInit ==
    /\ refCall \in [receiver : RefReceivers, verb : RefVerbs, path : RefPaths,
                    handler : RefHandlers]
    /\ refPrelude \in RefPreludes
    /\ refPc = "source"
    /\ endpoints = <<>>
    /\ instrumentedCode = <<>>

RefIdle ==
    /\ refCall = <<>>
    /\ refPrelude = <<>>
    /\ refPc = "off"
    /\ endpoints = <<>>
    /\ instrumentedCode = <<>>

SourceCode(prelude, c) == prelude \o getText(c.receiver, c.verb, c.path, c.handler)

\* instrumentFile(filePath, sourceCode)
InstrumentFile ==
    /\ refPc = "source"
    /\ endpoints' = <<endpointOf(refCall)>>
    /\ instrumentedCode' =
          applyEndpointInstrumentation(SourceCode(refPrelude, refCall),
                                       <<endpointOf(refCall)>>) \o Appended
    /\ refPc' = "done"
    /\ UNCHANGED <<refCall, refPrelude>>
    /\ UNCHANGED <<serVars, wrapVars, routeVars, passVars, buildVars, supVars, nameVars,
                   retVars>>

-----------------------------------------------------------------------------
(* One invocation of a function whose body createInstrumentedBody rewrote. *)
(* An expression is its node kind, its text and its operand nodes.         *)

Ident(n) == [kind |-> "identifier", text |-> n, args |-> <<>>]
CallExpr(callee, args) == [kind |-> "call", text |-> callee, args |-> args]
AwaitExpr(e) == [kind |-> "await", text |-> "await", args |-> <<e>>]
PostfixExpr(n) == [kind |-> "postfix", text |-> n, args |-> <<>>]
StringLiteralExpr(t) == [kind |-> "string", text |-> t, args |-> <<>>]

SyncExprs ==
    {Ident("result"), Ident("user"), PostfixExpr("count++"),
     CallExpr("next", <<>>), CallExpr("save", <<Ident("user")>>),
     CallExpr("res.json", <<Ident("result")>>),
     CallExpr("wrap", <<CallExpr("next", <<>>)>>),
     CallExpr("add", <<PostfixExpr("count++"), Ident("user")>>),
     CallExpr("compute", <<>>), CallExpr("res.send", <<Ident("user")>>)}
AsyncExprs ==
    {AwaitExpr(CallExpr("fetchUser", <<>>)), AwaitExpr(Ident("result")),
     CallExpr("send", <<AwaitExpr(CallExpr("load", <<>>))>>)}

NoExpr == [kind |-> "none", text |-> "", args |-> <<>>]
Body(r, e, a) == [ret |-> r, expr |-> e, isAsync |-> a, exitArgs |-> <<>>]
RetBodies ==
    {Body("expr", e, a) : e \in SyncExprs, a \in BOOLEAN}
        \cup {Body("expr", e, TRUE) : e \in AsyncExprs}
        \cup {Body(r, NoExpr, a) : r \in {"none", "bare"}, a \in BOOLEAN}

\* sanitizeExpression: an await expression becomes a placeholder literal, a
\* call keeps its callee and has its arguments sanitized, anything else is kept
RECURSIVE sanitizeExpression(_)
sanitizeExpression(expr) ==
    IF expr.kind = "await" THEN StringLiteralExpr("[await expression]")
    ELSE IF expr.kind = "call"
         THEN [expr EXCEPT !.args =
                  [i \in 1..Len(expr.args) |-> sanitizeExpression(expr.args[i])]]
         ELSE expr

\* what evaluating an expression does: the calls made and the updates
\* applied, operands first, in order
RECURSIVE Effects(_)
RECURSIVE EffectsOfAll(_)
EffectsOfAll(es) == IF es = <<>> THEN <<>> ELSE Effects(Head(es)) \o EffectsOfAll(Tail(es))
Effects(expr) ==
    CASE expr.kind = "call" -> EffectsOfAll(expr.args) \o <<expr.text>>
      [] expr.kind = "await" -> EffectsOfAll(expr.args)
      [] expr.kind = "postfix" -> <<expr.text>>
      [] OTHER -> <<>>

\* the return transformer: createLogStatement('EXIT', ..., [sanitizeExpression(
\* node.expression)]) when the return has an expression, [] when it has none
exitLogArgs(b) == IF b.ret = "expr" THEN <<sanitizeExpression(b.expr)>> ELSE <<>>

\* the template span of createLogStatement evaluates every argument
logEffects(args) == EffectsOfAll(args)
\* the argument that is the return expression itself, or its call, is a second
\* evaluation of that expression; the placeholder literal is not
logEvaluations(b, args) ==
    IF b.ret = "expr" /\ args # <<>> /\ args[1].kind # "string" THEN 1 ELSE 0

RetInit ==
    /\ retBody \in RetBodies
    /\ retPc = "source"
    /\ retEvals = 0
    /\ retCalls = <<>>
    /\ retLog = <<>>

RetIdle ==
    /\ retBody = NoExpr
    /\ retPc = "off"
    /\ retEvals = 0
    /\ retCalls = <<>>
    /\ retLog = <<>>

\* createInstrumentedBody(originalBody, ...)
InstrumentBody ==
    /\ retPc = "source"
    /\ retBody' = [retBody EXCEPT !.exitArgs = exitLogArgs(retBody)]
    /\ retPc' = "ready"
    /\ UNCHANGED <<retEvals, retCalls, retLog>>
    /\ UNCHANGED <<serVars, wrapVars, routeVars, passVars, buildVars, supVars, nameVars,
                   refVars>>

\* the function is called: the try block starts with the entry log
EnterBody ==
    /\ retPc = "ready"
    /\ retLog' = Append(retLog, "ENTER")
    /\ retPc' = "entered"
    /\ UNCHANGED <<retBody, retEvals, retCalls>>
    /\ UNCHANGED <<serVars, wrapVars, routeVars, passVars, buildVars, supVars, nameVars,
                   refVars>>

\* control reaches the block [exitLog, node] that replaced the return, or the
\* exit log appended after the last statement: the log statement runs
RunExitLog ==
    /\ retPc = "entered"
    /\ retCalls' = retCalls \o logEffects(retBody.exitArgs)
    /\ retEvals' = retEvals + logEvaluations(retBody, retBody.exitArgs)
    /\ retLog' = Append(retLog, "EXIT")
    /\ retPc' = "logged"
    /\ UNCHANGED retBody
    /\ UNCHANGED <<serVars, wrapVars, routeVars, passVars, buildVars, supVars, nameVars,
                   refVars>>

\* the original return statement runs, or the body ends
RunReturn ==
    /\ retPc = "logged"
    /\ retCalls' = retCalls \o (IF retBody.ret = "expr" THEN Effects(retBody.expr) ELSE <<>>)
    /\ retEvals' = retEvals + (IF retBody.ret = "expr" THEN 1 ELSE 0)
    /\ retPc' = "done"
    /\ UNCHANGED <<retBody, retLog>>
    /\ UNCHANGED <<serVars, wrapVars, routeVars, passVars, buildVars, supVars, nameVars,
                   refVars>>

InitWrap == WrapInit /\ SerIdle /\ RouteIdle /\ PassIdle /\ BuildIdle /\ SupIdle /\ NamesIdle /\ RefIdle
        /\ RetIdle
NextWrap == Instrument \/ Invoke \/ CallOriginal \/ SettleOriginal \/ Resume
SpecWrap == InitWrap /\ [][NextWrap]_vars

InitSer == SerInit /\ WrapIdle /\ RouteIdle /\ PassIdle /\ BuildIdle /\ SupIdle /\ NamesIdle /\ RefIdle
        /\ RetIdle
NextSer == CallSafeToString \/ CallSafeToStringArgs \/ CallSafeJsonStringify
SpecSer == InitSer /\ [][NextSer]_vars

InitRoute == RouteInit /\ SerIdle /\ WrapIdle /\ PassIdle /\ BuildIdle /\ SupIdle /\ NamesIdle /\ RefIdle
        /\ RetIdle
NextRoute ==
    InstrumentRoutes \/ Dispatch \/ DispatchInline \/ SettleHandler \/ FinishResponse
SpecRoute == InitRoute /\ [][NextRoute]_vars

InitPass == PassInit /\ SerIdle /\ WrapIdle /\ RouteIdle /\ BuildIdle /\ SupIdle /\ NamesIdle /\ RefIdle
        /\ RetIdle
NextPass == RunPass \/ InvokeConstruct \/ InvokeGenerator \/ NextGenerator
SpecPass == InitPass /\ [][NextPass]_vars

InitBuild == BuildInit /\ SerIdle /\ WrapIdle /\ RouteIdle /\ PassIdle /\ SupIdle /\ NamesIdle /\ RefIdle
        /\ RetIdle
NextBuild == StartBuild \/ ProcessFile \/ Finish \/ DeleteSource
SpecBuild == InitBuild /\ [][NextBuild]_vars

InitSup == SupInit /\ SerIdle /\ WrapIdle /\ RouteIdle /\ PassIdle /\ BuildIdle /\ NamesIdle /\ RefIdle
        /\ RetIdle
NextSup ==
    FileChange \/ Deliver \/ TimerFire \/ KillServer \/ ClearOutput \/ RunBuild
        \/ StartServer \/ DelayedStart
SpecSup == InitSup /\ [][NextSup]_vars

InitNames ==
    NamesInit /\ SerIdle /\ WrapIdle /\ RouteIdle /\ PassIdle /\ BuildIdle /\ SupIdle /\ RefIdle
        /\ RetIdle
NextNames == TransformFile \/ VisitNode
SpecNames == InitNames /\ [][NextNames]_vars

InitRef ==
    RefInit /\ SerIdle /\ WrapIdle /\ RouteIdle /\ PassIdle /\ BuildIdle /\ SupIdle
        /\ NamesIdle /\ RetIdle
NextRef == InstrumentFile
SpecRef == InitRef /\ [][NextRef]_vars

InitRet ==
    RetInit /\ SerIdle /\ WrapIdle /\ RouteIdle /\ PassIdle /\ BuildIdle /\ SupIdle
        /\ NamesIdle /\ RefIdle
NextRet == InstrumentBody \/ EnterBody \/ RunExitLog \/ RunReturn
SpecRet == InitRet /\ [][NextRet]_vars

-----------------------------------------------------------------------------
(* Properties of the generated function wrappers (SpecWrap).               *)

Phases(l) == [i \in 1..Len(l) |-> l[i].phase]
ErrorText(c) == TemplateText(safeToString(OrigError(c)))
ValueText(c) == TemplateText(safeToString(OrigValue(c)))

\* C1: every invocation of a generated wrapper logs exactly one ENTER,
\* followed by exactly one of EXIT or ERROR once the invocation completed:
\* never both, never neither, and nothing before ENTER.
C1_EnterThenOneExitOrError ==
    /\ Phases(log) \in {<<>>, <<"ENTER">>, <<"ENTER", "EXIT">>, <<"ENTER", "ERROR">>}
    /\ pc \in {"source", "ready"} => log = <<>>
    /\ pc \in {"entered", "awaiting"} => Phases(log) = <<"ENTER">>
    /\ pc = "done" => Len(log) = 2

C1_Witness ==
    /\ pc = "done"
    /\ wrapper.kind = "async"
    /\ beh = "reject"
    /\ Phases(log) = <<"ENTER", "ERROR">>

\* C2: the value the caller of the wrapper receives, or the value its
\* promise resolves with, is the value the original callable produced for
\* the receiver and the arguments of the call.
C2_ReturnsWhatOriginalProduced ==
    (pc = "done" /\ beh \in {"return", "resolve"}) =>
        \/ /\ beh = "return"
           /\ outcome = [kind |-> "return", state |-> "-", val |-> OrigValue(call)]
        \/ /\ beh = "resolve"
           /\ outcome = [kind |-> "return", state |-> "-", val |-> OrigPromiseObject]
           /\ OrigValue(received[1]) = OrigValue(call)
        \/ outcome = [kind |-> "promise", state |-> "resolved", val |-> OrigValue(call)]

C2_Witness ==
    /\ pc = "done"
    /\ call.thisArg = Receiver
    /\ Len(call.args) = 2
    /\ outcome = [kind |-> "promise", state |-> "resolved", val |-> OrigValue(call)]

\* C3: when the original callable throws synchronously, the wrapper logs
\* one ERROR carrying the thrown value and re-throws that value to the
\* caller; the throw is not turned into a normal return.
C3_SyncThrowIsRethrown ==
    (pc = "done" /\ beh = "throw") =>
        /\ outcome = [kind |-> "throw", state |-> "-", val |-> OrigError(call)]
        /\ Phases(log) = <<"ENTER", "ERROR">>
        /\ log[2].payload = ErrorText(call)

\* C4: an invocation of an async construct whose operation rejects logs
\* ENTER and then ERROR only, never EXIT, and the promise the wrapper
\* returned rejects with the same reason.
C4_AsyncRejectLogsErrorOnly ==
    (fn.isAsync /\ beh = "reject") =>
        /\ \A i \in 1..Len(log) : log[i].phase # "EXIT"
        /\ pc = "done" =>
              /\ Phases(log) = <<"ENTER", "ERROR">>
              /\ log[2].payload = ErrorText(call)
              /\ outcome = [kind |-> "promise", state |-> "rejected", val |-> OrigError(call)]

C4_Witness ==
    /\ pc = "done"
    /\ fn.isAsync
    /\ beh = "reject"
    /\ draft = "tsmorph"
    /\ outcome.state = "rejected"

\* C5: whenever the original callable returns a thenable, declared async or
\* not, EXIT is logged only once the thenable resolved and carries the
\* resolved value, and a rejection is logged as ERROR.
C5_ThenableLoggedWhenSettled ==
    beh \in {"resolve", "reject"} =>
        /\ \A i \in 1..Len(log) :
              log[i].phase = "EXIT" =>
                  /\ origPromise = "resolved"
                  /\ log[i].payload = ValueText(call)
        /\ (pc = "done" /\ origPromise = "rejected") => Phases(log) = <<"ENTER", "ERROR">>

-----------------------------------------------------------------------------
(* Properties of the payload serializers (SpecSer).                        *)

\* C6: no run-time value makes the payload serialization of a log
\* statement raise, for safeToString and for the inline expression alike.
C6_SerializationNeverRaises ==
    serPc = "done" => ~serOut.raised

-----------------------------------------------------------------------------
(* Properties of the route instrumenters (SpecRoute).                      *)

IsRouteShape(node) ==
    /\ node.recvIsIdent
    /\ node.receiver \in {"app", "router"}
    /\ node.verb \in {"get", "post", "put", "delete", "patch", "head", "options", "all"}

\* C8: a call is treated as a route registration exactly when it is
\* receiver.verb(...) with receiver the identifier app or router and verb
\* one of the eight HTTP verbs; any other call is left unmodified.
C8_RouteRecognition ==
    routePc # "source" =>
        /\ routeOut.recognized <=> IsRouteShape(routeCall)
        /\ ~IsRouteShape(routeCall) => routeOut.args = routeCall.args

\* C9: the route path is the first argument's value when that is a string
\* literal and /* otherwise; inline handlers are instrumented from the
\* argument after the path literal on, and from the first argument on when
\* there is no path literal.
C9_PathAndHandlerCoverage ==
    (routePc # "source" /\ routeOut.recognized /\ ~routeOut.raised) =>
        LET args == routeCall.args
            literal == Len(args) >= 1 /\ args[1].kind = "string"
        IN  /\ routeOut.routePath = IF literal THEN args[1].text ELSE "/*"
            /\ \A i \in 1..Len(args) :
                  (isInlineFunction(args[i]) /\ (i > 1 \/ ~literal)) =>
                      routeOut.args[i].wrapped = "inline"

\* C10: the forwarding handler put in place of a bare reference h logs one
\* ENDPOINT ENTER line whose payload is the name h, calls h with the
\* (req, res, next) it received, and returns what h returns.
C10_ForwardingHandler ==
    routePc = "dispatched" =>
        /\ hCall.lines = <<EndpointLine("ENTER", toUpperCase(routeCall.verb),
                                        routeOut.routePath, "app.ts", hCall.handler)>>
        /\ hCall.forwarded = hCall.sent
        /\ hCall.returned = [kind |-> "return", state |-> "-", val |-> hCall.hRet]

\* the payloads an ENDPOINT ENTER line of the model can end with
EnterPayloads ==
    {"handler", "{}", "undefined", SnapshotText(Undefined), SnapshotText(Obj(31))}

StartsWith(line, prefix) == \E p \in EnterPayloads : line = prefix \o "|" \o p

HasLiteralPath == Len(routeCall.args) >= 1 /\ routeCall.args[1].kind = "string"

\* C11: for a recognized registration of verb V on literal path P in file F,
\* each request that reaches an instrumented handler (inline or bare
\* reference) logs a line containing ENTER|ENDPOINT|<V upper-cased>|<P>|
\* followed by the base name of F.
C11_EndpointEnterLine ==
    /\ (routePc = "dispatched" /\ HasLiteralPath) =>
          \E i \in 1..Len(hCall.lines) :
              StartsWith(hCall.lines[i],
                         "ENTER|ENDPOINT|" \o toUpperCase(routeCall.verb) \o "|"
                             \o routeCall.args[1].text \o "|app.ts")
    /\ (routePc = "handling" /\ HasLiteralPath) =>
          \E i \in 1..Len(iCall.events) :
              /\ iCall.events[i].e = "log"
              /\ StartsWith(iCall.events[i].line,
                            "ENTER|ENDPOINT|" \o toUpperCase(routeCall.verb) \o "|"
                                \o routeCall.args[1].text \o "|app.ts")

EndpointLogs(phase) ==
    {i \in 1..Len(iCall.events) :
        /\ iCall.events[i].e = "log"
        /\ iCall.events[i].subject = "ENDPOINT"
        /\ iCall.events[i].phase = phase}

EventsOf(kind) == {i \in 1..Len(iCall.events) : iCall.events[i].e = kind}

\* C12: a request dispatched to an instrumented inline handler logs
\* ENDPOINT ENTER exactly once, before the original body runs, with a
\* snapshot of params, query and body; ENDPOINT EXIT at most once and only
\* after the response completed; ENDPOINT ERROR exactly when the handler
\* threw or its promise rejected, the same error reaching the router; and
\* the original body runs once.
C12_InlineHandlerLogging ==
    routePc = "handling" =>
        /\ Cardinality(EndpointLogs("ENTER")) = 1
        /\ \A i \in EndpointLogs("ENTER") :
              /\ \A j \in EventsOf("body") : i < j
              /\ iCall.events[i].line =
                    EndpointLine("ENTER", toUpperCase(routeCall.verb), routeOut.routePath,
                                 "app.ts", SnapshotText(iCall.body))
        /\ Cardinality(EndpointLogs("EXIT")) <= 1
        /\ \A i \in EndpointLogs("EXIT") : \E j \in EventsOf("finish") : j < i
        /\ (EndpointLogs("ERROR") # {}) <=>
              \/ iCall.hBeh = "throw"
              \/ iCall.hBeh = "reject" /\ iCall.result.state = "rejected"
        /\ iCall.hBeh = "throw" =>
              iCall.result = [kind |-> "throw", state |-> "-", val |-> HandlerError]
        /\ (iCall.hBeh = "reject" /\ iCall.result.state = "rejected") =>
              iCall.result.val = HandlerError
        /\ Cardinality(EventsOf("body")) = 1

\* C13: in a recognized registration every argument that is not a handler
\* appears in the output as in the input: the path, be it a string literal
\* or a reference to a binding that holds the path, and call expressions
\* such as pre-bound middleware.
C13_NonHandlersUntouched ==
    (routePc # "source" /\ routeOut.recognized) =>
        \A i \in 1..Len(routeCall.args) :
            (\/ routeCall.args[i].kind \in {"string", "call"}
             \/ i = 1 /\ isPathReference(routeCall.args[i]))
                => routeOut.args[i] = routeCall.args[i]

-----------------------------------------------------------------------------
(* Properties of the instrumentation pass over one file (SpecPass).        *)

EligibleKinds == {"function", "method", "getter", "setter", "funcExpr", "arrow"}

Count(q, x) == Cardinality({k \in 1..Len(q) : q[k] = x})

\* C14: after a pass, a wrapper has been emitted for every named top-level
\* function declaration, class method (instance or static), getter, setter,
\* and function expression or arrow function assigned to a top-level
\* binding of the file.
C14_EligibleKindsWrapped ==
    passes = 1 =>
        \A i \in 1..Len(source) :
            (source[i].kind \in EligibleKinds /\ source[i].parent = "") =>
                \E k \in 1..Len(emitted) : emitted[k].of = i

\* C15: a generator construct gets the generator wrapper and not the
\* ordinary one; its invocation logs ENTER, iterating it yields the
\* original's values in order, EXIT is logged once and only when the
\* original generator has completed, and an exception during the
\* delegation is logged as ERROR.
C15_GeneratorWrapper ==
    /\ passes = 1 =>
          \A i \in 1..Len(source) :
              source[i].isGenerator =>
                  /\ WrappersOn(source[i]) # <<>>
                  /\ \A k \in 1..Len(WrappersOn(source[i])) :
                        WrappersOn(source[i])[k].template = "generator"
    /\ (run.target > 0 /\ source[run.target].isGenerator) =>
          /\ Count(run.phases, "ENTER") = 1
          /\ run.yielded = SubSeq(GenValues, 1, Len(run.yielded))
          /\ Count(run.phases, "EXIT") = (IF run.state = "completed" THEN 1 ELSE 0)
          /\ Count(run.phases, "ERROR") = (IF run.state = "threw" THEN 1 ELSE 0)

\* C16: within one pass no binding is rebound (and no body rewritten) by
\* two emitted wrappers, so one invocation of a construct never logs two
\* ENTER lines.
C16_WrappedAtMostOnce ==
    passes = 1 =>
        /\ \A j, k \in 1..Len(emitted) : j # k => emitted[j].binding # emitted[k].binding
        /\ Count(run.phases, "ENTER") <= 1

\* C17: no wrapper is emitted for a function declared inside the body of
\* another function, so no wrapper refers to a name local to a body.
C17_NestedNotWrapped ==
    passes = 1 =>
        \A k \in 1..Len(emitted) :
            emitted[k].of > 0 => source[emitted[k].of].parent = ""

\* C18: a second pass over the output of the first adds no wrapper: the
\* file carries the wrappers of one pass, and an invocation of a construct
\* that one pass wraps logs one ENTER and one EXIT or ERROR.
C18_SecondPassAddsNothing ==
    passes = 2 =>
        /\ emitted = Classify(passDraft, source, 1)
        /\ (run.state \in {"returned", "raised"} /\ WrappersOn(source[run.target]) # <<>>) =>
              run.phases = <<"ENTER", "body", IF run.beh = "return" THEN "EXIT" ELSE "ERROR">>

\* ---------------------------------------------------------------------
\* Properties of the build step (SpecBuild)
\* ---------------------------------------------------------------------
FilesOf(b) == {b.files[k] : k \in 1..Len(b.files)}

\* C19: every build begins by clearing the output directory, however it was
\* started: from the moment a build has started, and after it has ended, the
\* output tree holds no artifact of a file that was absent from the source
\* tree this build read, whatever earlier builds or abandoned passes left.
C19_OutputHasNoStaleArtifact ==
    build.pc # "idle" =>
        \A a \in outTree : a.kind # "package.json" => a.src \in FilesOf(build)

Reported(b, f) == \E k \in 1..Len(b.reports) : b.reports[k].file = f

\* C20: when parsing or transforming a source file failed during a build,
\* the ended build has reported every such file by its path and has ended
\* with a non-zero status (an exception thrown after the report is counted
\* as one); it has not returned a success status or no status.
C20_FailureReportedWithStatus ==
    (build.pc = "done" /\ build.failed # {}) =>
        /\ \A f \in build.failed : Reported(build, f)
        /\ build.status \in {"1", "threw"}

\* C21: in a build run with instrumentation disabled (enabled = false),
\* every file the build writes equals its input but for the rewriting of
\* import paths: no log statement, wrapper block, route-handler wrapper or
\* serializer helper has been added to it.
C21_DisabledBuildAddsNothing ==
    (build.pc # "idle" /\ ~build.enabled) =>
        \A a \in build.wrote : a.added = {}

\* ---------------------------------------------------------------------
\* Properties of the dev supervisors (SpecSup)
\* ---------------------------------------------------------------------

\* C22: in every dev supervisor that holds a rebuildTimeout change events
\* reach the build through a debounce: at most one rebuild timer is pending, and when the build of a
\* rebuild is set going by change events, no qualifying event that arrived
\* before is still waiting (the build runs after the last event of the
\* burst) and at least one event arrived since the build before (one build
\* for the burst, not one for each of its events).
C22_DebouncedRebuild ==
    sup \in {"devBabel", "devInstrumented", "devDebounce"} =>
        /\ pendingTimers <= 1
        /\ rb.trigger # StartupPath => (rb.queued = 0 /\ rb.fresh >= 1)

OrderedSupervisors == {"devBabel", "devInstrumented"}

\* C26: in dev-babel.ts and dev-instrumented.ts a rebuild kills the tracked
\* server, then clears the output, then builds, then starts the server: no
\* server is tracked while the output is cleared or rewritten or when a
\* server is about to be spawned, and every spawned process that was not
\* killed is the tracked one, so there is at most one.
C26_OneTrackedServer ==
    sup \in OrderedSupervisors =>
        /\ supPc \in {"clear", "build", "start"} => serverProcess = 0
        /\ alive \subseteq {serverProcess}
        /\ Cardinality(alive) <= 1

\* a second server has replaced the first one after a change event
C26_Witness ==
    /\ sup \in OrderedSupervisors
    /\ supPc = "idle"
    /\ spawned >= 2
    /\ serverProcess = spawned
    /\ alive = {spawned}

\* C27: when the build of a rebuild threw, the server is not started for
\* that rebuild; the supervisor goes back to waiting for events.
C27_NoStartAfterFailedBuild ==
    ~(rb.threw /\ rb.started)

\* C28: a rebuild is triggered only by a change of a path that ends in .ts,
\* .tsx or .env and lies outside every node_modules, dist, .git and tracing
\* directory; no file the build writes under dist triggers a rebuild.
C28_OnlySourceChangesTrigger ==
    rb.trigger # StartupPath =>
        /\ Qualifies(rb.trigger)
        /\ rb.trigger.dir \notin {"node_modules", "dist", ".git", "tracing"}

\* ---------------------------------------------------------------------
\* Further properties of the generated wrappers (SpecWrap)
\* ---------------------------------------------------------------------

\* C23: every FUNCTION log line reads
\* <PHASE>|FUNCTION|<fileBaseName>|<scopePath>|<name>|<payload>, where
\* scopePath is the name of the class of a method and is empty exactly for
\* a module-scope construct.
C23_ScopePathField ==
    \A i \in 1..Len(log) :
        log[i].subject = "FUNCTION" =>
            Render(log[i]) = log[i].phase \o "|FUNCTION|" \o basename(filePath) \o "|"
                                \o fn.className \o "|" \o fn.name \o "|" \o log[i].payload

\* ---------------------------------------------------------------------
\* Further properties of the instrumentation pass (SpecPass)
\* ---------------------------------------------------------------------

\* C24: the output of the ts-morph tracer loads whenever the original file
\* loads: every wrapper block it appended rebinds a binding that exists in
\* the scope of the block and can be assigned (no const-declared binding,
\* no name local to a function body).
C24_TracerOutputLoads ==
    (passDraft = "tsmorph" /\ passes >= 1) => FileLoads

\* ---------------------------------------------------------------------
\* Properties of the synthesized names (SpecNames)
\* ---------------------------------------------------------------------
IsAnonymous(kind) == DeclaredName(kind) = ""

SameNames(a, b) ==
    /\ Len(a) = Len(b)
    /\ \A k \in 1..Len(a) : a[k].name = b[k].name

\* C25: the names synthesized for anonymous constructs come from a counter
\* that starts at zero in every file and only grows: a file is given the
\* same names wherever it stands among the files processed, and no two
\* anonymous constructs of one file are given the same name.
C25_SynthesizedNames ==
    /\ \A i \in 1..Len(finished) :
          (todoNodes = <<>> /\ finished[i].content = content) =>
              SameNames(finished[i].given, given)
    /\ \A i, j \in 1..Len(given) :
          (i # j /\ IsAnonymous(given[i].kind) /\ IsAnonymous(given[j].kind)) =>
              given[i].name # given[j].name

-----------------------------------------------------------------------------
(* Properties of the ts-morph tracer on registration text (SpecRef).       *)

\* the registration with its handler argument replaced by the wrapper
HandlerReplaced(c) ==
    getText(c.receiver, c.verb, c.path,
            referenceWrapper(c.handler, toUpperCaseText(c.verb), c.path, RefFileName))

\* C29: instrumenting a bare-reference handler h in recv.verb(path, h)
\* changes only the handler argument: receiver, verb and path literal are
\* as in the input and the handler argument is the one replaced, also when
\* the text of h's name occurs earlier in the call text.
C29_OnlyHandlerArgumentReplaced ==
    refPc = "done" =>
        instrumentedCode = refPrelude \o HandlerReplaced(refCall) \o Appended

-----------------------------------------------------------------------------
(* Properties of the rewritten function bodies (SpecRet).                  *)

\* C30: each invocation of a function instrumented by createInstrumentedBody
\* evaluates the expression of the executed return statement exactly once;
\* the EXIT log adds no second evaluation, so the calls and side effects of
\* the return expression happen as often as in the original function.
C30_ReturnExpressionEvaluatedOnce ==
    (retPc = "done" /\ retBody.ret = "expr") =>
        /\ retEvals = 1
        /\ retCalls = Effects(retBody.expr)

====
